---- MODULE Spec2Model ----
(***************************************************************************)
(* Travel Readiness Sentinel: the itinerary model (src/src/core/model.py), *)
(* the readiness engine (src/src/validation.py) and its two front ends,    *)
(* the package command line (src/src/__main__.py) and the /validate        *)
(* endpoint (src/src/api.py).                                              *)
(*                                                                         *)
(* Spec runs the package command line or /validate on a raw mapping,       *)
(* SpecScript the top-level script (src/main.py), SpecModel constructs an  *)
(* Itinerary from a raw mapping as it is read and serializes it back,      *)
(* SpecEngine runs the checks one by one in any order.                     *)
(*                                                                         *)
(* Dates are day ordinals 1..MaxDay; an absent optional date is NoDate.    *)
(* A flight number is the sequence of its characters.                      *)
(***************************************************************************)
EXTENDS Integers, Sequences, FiniteSets, TLC

VARIABLES
    raw,        \* the raw mapping handed to Itinerary(**raw_data)
    front,      \* the front end that took the input: "none", "cli", "script", "api", "upload", "notion"
    itinerary,  \* the constructed Itinerary, or NoItinerary
    cli_pc,     \* position of main(): "idle", "checks", "returned", "exited", "crashed"
    idx,        \* 1-based position of the for loop of main() in get_all_checks()
    failures,   \* the failures counter of main()
    out,        \* the lines main() has printed, in order
    exit_code,  \* the process exit code, NoExit while running
    response,   \* the HTTP response of /validate, or NoResponse
    metrics,    \* the increments of the metric counters, in order
    mapping,    \* a raw flight mapping handed to Flight(**mapping)
    built,      \* the outcome of Flight(**mapping), or NotBuilt
    dumped,     \* the serialized form of the built Flight, or NotDumped
    results,    \* for each check, the outcome of its latest run by a caller, or NotRun
    rerun,      \* whether some check has been run more than once
    file,       \* the file named on the command line or uploaded: name, suffix, content
    temp_file,  \* the temporary file of /upload: "none", "created", "written", "removed"
    settings,   \* the Settings the handlers read
    notion,     \* the Notion workspace: whether it takes a page, and the pages it holds
    sheet,      \* the workbook handed to ExcelIngestion.parse
    parsed,     \* the outcome of ExcelIngestion.parse, or NotParsed
    request,    \* the request LoggingMiddleware.dispatch handles, with its state
    request_id_var, \* the context variable request_id_var, NoRequestId when None
    dispatch_pc,    \* position of dispatch: "idle", "called", "returned", "raised"
    sent,       \* what dispatch handed back: a response with headers, or the exception
    log         \* the records dispatch logged, in order

\* the state of a run of a front end
front_vars == <<raw, front, itinerary, cli_pc, idx, failures, out, exit_code, response, metrics>>

\* the state of the construction of one Flight
model_vars == <<mapping, built, dumped>>

\* the state of a caller that runs checks on one Itinerary
engine_vars == <<results, rerun>>

\* the input file of a front end, the temporary file, the settings and Notion
file_vars == <<file, temp_file, settings, notion>>

\* the state of one ExcelIngestion.parse
excel_vars == <<sheet, parsed>>

\* the state of one LoggingMiddleware.dispatch
dispatch_vars == <<request, request_id_var, dispatch_pc, sent, log>>

\* what the front ends, the construction and the engine leave alone
rest_vars == <<excel_vars, dispatch_vars>>

vars == <<front_vars, model_vars, engine_vars, file_vars, rest_vars>>

----------------------------------------------------------------------------
(* Bounds of the model *)

MaxDay == 2
MaxFlights == 2

Days == 1..MaxDay
Durations == 0..(MaxDay - 1)

----------------------------------------------------------------------------
(* src/src/core/model.py *)

NoDate == 0

MinFlightNumberLen == 3

FlightTypes == {"arrival", "departure"}

\* a validator of flight_number that asks for more than MinFlightNumberLen characters
validate_flight_code_exclusive(v) == Len(v) > MinFlightNumberLen

\* Flight.validate_flight_code: the field validator of flight_number
validate_flight_code(v) == Len(v) >= MinFlightNumberLen

\* a model validator with the two "must have" rules only
validate_flight_date_required_only(f) ==
    /\ ~(f.type = "arrival" /\ f.arrival_date = NoDate)
    /\ ~(f.type = "departure" /\ f.departure_date = NoDate)

\* Flight.validate_flight_date: the model validator, run after the fields
validate_flight_date(f) ==
    /\ ~(f.type = "arrival" /\ f.arrival_date = NoDate)
    /\ ~(f.type = "departure" /\ f.departure_date = NoDate)
    /\ ~(f.type = "arrival" /\ f.departure_date # NoDate)
    /\ ~(f.type = "departure" /\ f.arrival_date # NoDate)

\* Flight(**f) succeeds
FlightOk(f) ==
    /\ f.type \in FlightTypes
    /\ validate_flight_code(f.flight_number)
    /\ validate_flight_date(f)

\* Flight.flight_date
flight_date(f) == IF f.type = "arrival" THEN f.arrival_date ELSE f.departure_date

\* Hotel.stay_duration
stay_duration(h) == h.check_out - h.check_in

NoItinerary == [error |-> "ValidationError"]

\* Itinerary(**raw_data): the typed Itinerary, or NoItinerary when pydantic raises
Itinerary(r) ==
    IF \A i \in 1..Len(r.flights) : FlightOk(r.flights[i])
    THEN [trip_details |-> r.trip_details,
          flights |-> r.flights,
          accommodation |-> r.accommodation]
    ELSE NoItinerary

----------------------------------------------------------------------------
(* src/src/validation.py *)

\* CheckResult(check_name, passed, message); a message is its template and
\* the values formatted into it
CheckResult(check_name, passed, text, args) ==
    [check_name |-> check_name, passed |-> passed,
     message |-> [text |-> text, args |-> args]]

\* the outcome of a call: a returned value, or a raised exception
Return(v) == [raised |-> FALSE, value |-> v]
Raise(e) == [raised |-> TRUE, value |-> e]

\* variant of next_of_type: a scan that keeps the last match, not the first
RECURSIVE next_of_type_last(_, _, _)
next_of_type_last(flights, t, i) ==
    IF i > Len(flights) THEN 0
    ELSE LET later == next_of_type_last(flights, t, i + 1) IN
         IF later # 0 THEN later
         ELSE IF flights[i].type = t THEN i ELSE 0

\* next(f for f in flights if f.type == t), scanning from position i:
\* the position of the first match, 0 when the generator is exhausted
RECURSIVE next_of_type(_, _, _)
next_of_type(flights, t, i) ==
    IF i > Len(flights) THEN 0
    ELSE IF flights[i].type = t THEN i
    ELSE next_of_type(flights, t, i + 1)

\* variant of ArrivalAlignmentCheck.run: the fail message names the check-in only
ArrivalAlignmentCheck_run_terse(name, data) ==
    LET k == next_of_type(data.flights, "arrival", 1) IN
    IF k = 0 THEN Raise("StopIteration")
    ELSE LET arrival_flight == data.flights[k] IN
         IF flight_date(arrival_flight) = data.accommodation.check_in
         THEN Return(CheckResult(name, TRUE,
                  "Flight arrival ({}) matches hotel check-in",
                  <<flight_date(arrival_flight)>>))
         ELSE Return(CheckResult(name, FALSE,
                  "Flight does not match Hotel check-in {}",
                  <<data.accommodation.check_in>>))

\* variant of ArrivalAlignmentCheck.run: with no arrival flight the check
\* reports a failure against a made-up date instead of raising
ArrivalAlignmentCheck_run_default(name, data) ==
    LET k == next_of_type(data.flights, "arrival", 1) IN
    IF k = 0
    THEN Return(CheckResult(name, FALSE,
             "Flight lands on {}, but Hotel check-in is {}",
             <<NoDate, data.accommodation.check_in>>))
    ELSE LET arrival_flight == data.flights[k] IN
         IF flight_date(arrival_flight) = data.accommodation.check_in
         THEN Return(CheckResult(name, TRUE,
                  "Flight arrival ({}) matches hotel check-in",
                  <<flight_date(arrival_flight)>>))
         ELSE Return(CheckResult(name, FALSE,
                  "Flight lands on {}, but Hotel check-in is {}",
                  <<flight_date(arrival_flight), data.accommodation.check_in>>))

\* variant of ArrivalAlignmentCheck.run: the arrival is compared with the
\* start of the trip
ArrivalAlignmentCheck_run_start_date(name, data) ==
    LET k == next_of_type(data.flights, "arrival", 1) IN
    IF k = 0 THEN Raise("StopIteration")
    ELSE LET arrival_flight == data.flights[k] IN
         IF flight_date(arrival_flight) = data.trip_details.start_date
         THEN Return(CheckResult(name, TRUE,
                  "Flight arrival ({}) matches hotel check-in",
                  <<flight_date(arrival_flight)>>))
         ELSE Return(CheckResult(name, FALSE,
                  "Flight lands on {}, but Hotel check-in is {}",
                  <<flight_date(arrival_flight), data.trip_details.start_date>>))

\* ArrivalAlignmentCheck.run
ArrivalAlignmentCheck_run(name, data) ==
    LET k == next_of_type(data.flights, "arrival", 1) IN
    IF k = 0 THEN Raise("StopIteration")
    ELSE LET arrival_flight == data.flights[k] IN
         IF flight_date(arrival_flight) = data.accommodation.check_in
         THEN Return(CheckResult(name, TRUE,
                  "Flight arrival ({}) matches hotel check-in",
                  <<flight_date(arrival_flight)>>))
         ELSE Return(CheckResult(name, FALSE,
                  "Flight lands on {}, but Hotel check-in is {}",
                  <<flight_date(arrival_flight), data.accommodation.check_in>>))

\* variant of DurationCoverageCheck.run: a strict comparison
DurationCoverageCheck_run_strict(name, data) ==
    LET trip_days == data.trip_details.total_duration_days
        hotel_days == stay_duration(data.accommodation)
    IN  IF hotel_days > trip_days
        THEN Return(CheckResult(name, TRUE,
                 "Hotel covers full trip duration ({} nights >= {} nights)",
                 <<hotel_days, trip_days>>))
        ELSE Return(CheckResult(name, FALSE,
                 "Gap Detected! Trip is {} nights, but hotel is only {} nights.",
                 <<trip_days, hotel_days>>))

\* DurationCoverageCheck.run
DurationCoverageCheck_run(name, data) ==
    LET trip_days == data.trip_details.total_duration_days
        hotel_days == stay_duration(data.accommodation)
    IN  IF hotel_days >= trip_days
        THEN Return(CheckResult(name, TRUE,
                 "Hotel covers full trip duration ({} nights >= {} nights)",
                 <<hotel_days, trip_days>>))
        ELSE Return(CheckResult(name, FALSE,
                 "Gap Detected! Trip is {} nights, but hotel is only {} nights.",
                 <<trip_days, hotel_days>>))

\* variant of DepartureAlignmentCheck.run: the flight is compared with the
\* hotel check-out, not with the trip end date
DepartureAlignmentCheck_run_check_out(name, data) ==
    LET k == next_of_type(data.flights, "departure", 1) IN
    IF k = 0 THEN Raise("StopIteration")
    ELSE LET dept_flight == data.flights[k] IN
         IF flight_date(dept_flight) = data.accommodation.check_out
         THEN Return(CheckResult(name, TRUE,
                  "Departure flight ({}) matches trip end date",
                  <<flight_date(dept_flight)>>))
         ELSE Return(CheckResult(name, FALSE,
                  "Visa Risk! Trip ends on {} but flight is {}",
                  <<data.trip_details.end_date, flight_date(dept_flight)>>))

\* variant of DepartureAlignmentCheck.run: it passes only when the stay covers
\* the trip as well
DepartureAlignmentCheck_run_gated(name, data) ==
    LET k == next_of_type(data.flights, "departure", 1) IN
    IF k = 0 THEN Raise("StopIteration")
    ELSE LET dept_flight == data.flights[k] IN
         IF /\ flight_date(dept_flight) = data.trip_details.end_date
            /\ stay_duration(data.accommodation) >= data.trip_details.total_duration_days
         THEN Return(CheckResult(name, TRUE,
                  "Departure flight ({}) matches trip end date",
                  <<flight_date(dept_flight)>>))
         ELSE Return(CheckResult(name, FALSE,
                  "Visa Risk! Trip ends on {} but flight is {}",
                  <<data.trip_details.end_date, flight_date(dept_flight)>>))

\* DepartureAlignmentCheck.run
DepartureAlignmentCheck_run(name, data) ==
    LET k == next_of_type(data.flights, "departure", 1) IN
    IF k = 0 THEN Raise("StopIteration")
    ELSE LET dept_flight == data.flights[k] IN
         IF flight_date(dept_flight) = data.trip_details.end_date
         THEN Return(CheckResult(name, TRUE,
                  "Departure flight ({}) matches trip end date",
                  <<flight_date(dept_flight)>>))
         ELSE Return(CheckResult(name, FALSE,
                  "Visa Risk! Trip ends on {} but flight is {}",
                  <<data.trip_details.end_date, flight_date(dept_flight)>>))

\* get_all_checks: the check objects, each its class and its name
get_all_checks ==
    << [class |-> "ArrivalAlignmentCheck", name |-> "Arrival Date Alignment"],
       [class |-> "DurationCoverageCheck", name |-> "Full Accommodation Coverage"],
       [class |-> "DepartureAlignmentCheck", name |-> "Exit Strategy Alignment"] >>

\* check.run(data): dispatch on the class of the check
run(check, data) ==
    CASE check.class = "ArrivalAlignmentCheck" ->
             ArrivalAlignmentCheck_run(check.name, data)
      [] check.class = "DurationCoverageCheck" ->
             DurationCoverageCheck_run(check.name, data)
      [] check.class = "DepartureAlignmentCheck" ->
             DepartureAlignmentCheck_run(check.name, data)

\* variant of run_each: each result is put in front of the list
RECURSIVE run_each_prepend(_, _, _, _)
run_each_prepend(checks, data, i, acc) ==
    IF i > Len(checks) THEN Return(acc)
    ELSE LET r == run(checks[i], data) IN
         IF r.raised THEN r
         ELSE run_each_prepend(checks, data, i + 1, <<r.value>> \o acc)

\* [check.run(itinerary) for check in checks] from position i on, acc the
\* list built so far: the first raising check ends the comprehension
RECURSIVE run_each(_, _, _, _)
run_each(checks, data, i, acc) ==
    IF i > Len(checks) THEN Return(acc)
    ELSE LET r == run(checks[i], data) IN
         IF r.raised THEN r
         ELSE run_each(checks, data, i + 1, Append(acc, r.value))

\* run_all_checks
run_all_checks(data) == run_each(get_all_checks, data, 1, <<>>)

----------------------------------------------------------------------------
(* src/src/ingestion/excel.py *)

\* a dict: a function of its keys
EmptyDict == [k \in {} |-> 0]
Put(d, k, v) == [x \in DOMAIN d \cup {k} |-> IF x = k THEN v ELSE d[x]]
Pop(d, k) == [x \in DOMAIN d \ {k} |-> d[x]]

\* ExcelIngestion.field_mapping
field_mapping ==
    [f \in {"Trip Destination"} |-> <<"trip_details", "destination">>]
    @@ [f \in {"Trip Start Date"} |-> <<"trip_details", "start_date">>]
    @@ [f \in {"Trip End Date"} |-> <<"trip_details", "end_date">>]
    @@ [f \in {"Total Duration (Days)"} |-> <<"trip_details", "total_duration_days">>]
    @@ [f \in {"Arrival Flight Number"} |-> <<"flights", "arrival", "flight_number">>]
    @@ [f \in {"Arrival Date"} |-> <<"flights", "arrival", "arrival_date">>]
    @@ [f \in {"Departure Flight Number"} |-> <<"flights", "departure", "flight_number">>]
    @@ [f \in {"Departure Date"} |-> <<"flights", "departure", "departure_date">>]
    @@ [f \in {"Hotel Name"} |-> <<"accommodation", "hotel_name">>]
    @@ [f \in {"Hotel Check-in Date"} |-> <<"accommodation", "check_in">>]
    @@ [f \in {"Hotel Check-out Date"} |-> <<"accommodation", "check_out">>]

\* the rows of the template, top to bottom, and a row the mapping does not know
RowOrder ==
    <<"Trip Destination", "Trip Start Date", "Trip End Date", "Total Duration (Days)",
      "Arrival Flight Number", "Arrival Date", "Departure Flight Number",
      "Departure Date", "Hotel Name", "Hotel Check-in Date", "Hotel Check-out Date",
      "Notes">>

\* the Value cell of a row of the sheet, after str(value).strip() or int(value)
CellValue(field) ==
    CASE field = "Trip Destination" -> "Tokyo"
      [] field = "Total Duration (Days)" -> MaxDay - 1
      [] field \in {"Arrival Flight Number", "Departure Flight Number"} -> <<"N", "H", "1">>
      [] field = "Hotel Name" -> "Park Hyatt"
      [] field \in {"Trip Start Date", "Arrival Date", "Hotel Check-in Date"} -> 1
      [] OTHER -> MaxDay

\* ExcelIngestion._set_nested_value
set_nested_value(data, field, value) ==
    LET path == field_mapping[field] IN
    CASE path[1] = "trip_details" ->
            [data EXCEPT !.trip_details = Put(@, path[2], value)]
      [] path[1] = "flights" ->
            LET entry == IF path[2] \in DOMAIN data THEN data[path[2]] ELSE EmptyDict
            IN  Put(data, path[2], Put(Put(entry, path[3], value), "type", path[2]))
      [] path[1] = "accommodation" ->
            [data EXCEPT !.accommodation = Put(@, path[2], value)]

\* the loop of parse over the rows of the sheet: rows with an empty Value are
\* skipped, rows with a Field outside field_mapping are ignored
RECURSIVE set_rows(_, _, _)
set_rows(data, rows, i) ==
    IF i > Len(RowOrder) THEN data
    ELSE IF RowOrder[i] \in rows /\ RowOrder[i] \in DOMAIN field_mapping
    THEN set_rows(set_nested_value(data, RowOrder[i], CellValue(RowOrder[i])), rows, i + 1)
    ELSE set_rows(data, rows, i + 1)

\* variant of _validate_data: the flights are not looked at
validate_data_no_flights(data) ==
    IF \E field \in {"destination", "start_date", "end_date", "total_duration_days"} :
          field \notin DOMAIN data.trip_details
    THEN "Missing required trip detail"
    ELSE IF \E field \in {"hotel_name", "check_in", "check_out"} :
          field \notin DOMAIN data.accommodation
    THEN "Missing required accommodation detail"
    ELSE ""

\* ExcelIngestion._validate_data: the message of the ValueError, "" when none
validate_data(data) ==
    IF \E field \in {"destination", "start_date", "end_date", "total_duration_days"} :
          field \notin DOMAIN data.trip_details
    THEN "Missing required trip detail"
    ELSE IF \E field \in {"hotel_name", "check_in", "check_out"} :
          field \notin DOMAIN data.accommodation
    THEN "Missing required accommodation detail"
    ELSE IF "arrival" \notin DOMAIN data \/ "flight_number" \notin DOMAIN data["arrival"]
    THEN "Missing arrival flight information"
    ELSE IF "departure" \notin DOMAIN data \/ "flight_number" \notin DOMAIN data["departure"]
    THEN "Missing departure flight information"
    ELSE ""

\* the entry of a kind appended to the list, if it is there with a flight number
flight_entry(data, kind) ==
    IF kind \in DOMAIN data /\ "flight_number" \in DOMAIN data[kind]
    THEN <<data[kind]>> ELSE <<>>

\* variant of _format_flights: the temporary keys stay in the mapping
format_flights_keep(data) ==
    Put(data, "flights", flight_entry(data, "arrival") \o flight_entry(data, "departure"))

\* ExcelIngestion._format_flights
format_flights(data) ==
    Put(Pop(Pop(data, "arrival"), "departure"), "flights",
        flight_entry(data, "arrival") \o flight_entry(data, "departure"))

\* ExcelIngestion.parse of a workbook: sh.readable is whether pd.read_excel
\* reads the sheet 'Travel Itinerary', sh.rows the Fields with a Value,
\* sh.numeric whether int() takes the Value of the duration
ExcelIngestion_parse(sh) ==
    IF ~sh.readable THEN Raise("ValueError")
    ELSE IF "Total Duration (Days)" \in sh.rows /\ ~sh.numeric THEN Raise("ValueError")
    ELSE LET data == set_rows([trip_details |-> EmptyDict, flights |-> <<>>,
                               accommodation |-> EmptyDict], sh.rows, 1)
         IN  IF validate_data(data) # "" THEN Raise("ValueError")
             ELSE Return(format_flights(data))

\* Itinerary(**raw_data): the keyword arguments, with None for a date not given
keyword_arguments(data) ==
    [trip_details |-> data.trip_details,
     flights |-> [i \in 1..Len(data.flights) |->
        LET f == data.flights[i] IN
        [type |-> f.type,
         flight_number |-> f.flight_number,
         arrival_date |-> IF "arrival_date" \in DOMAIN f THEN f.arrival_date ELSE NoDate,
         departure_date |-> IF "departure_date" \in DOMAIN f THEN f.departure_date ELSE NoDate]],
     accommodation |-> data.accommodation]

NoSheet == [readable |-> FALSE, rows |-> {}, numeric |-> FALSE]

NotParsed == [not_parsed |-> TRUE]

\* reader.parse(path) of an Excel file
parse ==
    /\ sheet # NoSheet
    /\ parsed = NotParsed
    /\ parsed' = ExcelIngestion_parse(sheet)
    /\ UNCHANGED sheet
    /\ UNCHANGED <<front_vars, model_vars, engine_vars, file_vars, dispatch_vars>>

----------------------------------------------------------------------------
(* src/src/ingestion/yaml.py and the choice of the reader by suffix *)

\* str.lower() on the suffixes of the model
lower(suffix) ==
    CASE suffix = ".XLSX" -> ".xlsx"
      [] suffix = ".YML" -> ".yml"
      [] OTHER -> suffix

\* YAMLIngestion.parse: the mapping of the file, or ValueError when the file
\* is no YAML or its root is no mapping
YAMLIngestion_parse(f, data) ==
    IF f.content = "mapping" THEN Return(data) ELSE Raise("ValueError")

\* reader.parse(path) with the reader chosen by the suffix: what
\* Itinerary(**raw_data) is called with, or the ValueError of the reader
reader_parse(f, data, sh) ==
    IF lower(f.suffix) = ".xlsx"
    THEN IF f.content # "sheet" THEN Raise("ValueError")
         ELSE LET r == ExcelIngestion_parse(sh) IN
              IF r.raised THEN r ELSE Return(keyword_arguments(r.value))
    ELSE YAMLIngestion_parse(f, data)

----------------------------------------------------------------------------
(* src/src/__main__.py: the package command line *)

NoExit == -1

NoMessage == [text |-> "", args |-> <<>>]

\* one printed line: what it is, and the check name, message or count in it
Line(kind, check_name, message, n) ==
    [kind |-> kind, check_name |-> check_name, message |-> message, n |-> n]

Banner(kind) == Line(kind, "", NoMessage, 0)

\* variant of main() up to the loop: the raw mapping is handed to the checks
\* as it was read, without construction
load_itinerary_unvalidated ==
    /\ front = "none"
    /\ front' = "cli"
    /\ out' = <<Banner("Ingesting"), Banner("Reading YAML file"),
                Banner("Validating Trip"), Banner("-")>>
    /\ itinerary' = raw
    /\ cli_pc' = "checks"
    /\ idx' = 1
    /\ failures' = 0
    /\ UNCHANGED <<raw, exit_code, response, metrics>>
    /\ UNCHANGED <<model_vars, engine_vars, file_vars, rest_vars>>

\* variant of load_itinerary: a file of any other suffix is read as YAML
load_itinerary_any_suffix ==
    /\ front = "none"
    /\ front' = "cli"
    /\ LET xlsx == lower(file.suffix) = ".xlsx"
           reading == IF xlsx THEN Banner("Reading Excel file")
                      ELSE Banner("Reading YAML file")
           r == reader_parse(file, raw, sheet)
           exit(lines) == /\ out' = <<Banner("Ingesting")>> \o lines
                          /\ cli_pc' = "exited"
                          /\ exit_code' = 1
                          /\ UNCHANGED <<itinerary, idx, failures>>
       IN
       IF ~file.exists
       THEN exit(<<Banner("File not found")>>)
       ELSE IF r.raised
       THEN exit(<<reading, Banner("Error processing file")>>)
       ELSE LET it == Itinerary(r.value)
                read == IF xlsx
                        THEN <<reading, Banner("Excel file successfully parsed")>>
                        ELSE <<reading>>
            IN  IF it = NoItinerary
                THEN exit(read \o <<Banner("Data Integrity Error")>>)
                ELSE /\ out' = <<Banner("Ingesting")>> \o read
                               \o <<Banner("Validating Trip"), Banner("-")>>
                     /\ itinerary' = it
                     /\ cli_pc' = "checks"
                     /\ idx' = 1
                     /\ failures' = 0
                     /\ UNCHANGED exit_code
    /\ UNCHANGED <<raw, response, metrics>>
    /\ UNCHANGED <<model_vars, engine_vars, file_vars, rest_vars>>

\* main() up to the loop: the banner, then load_itinerary, which returns the
\* Itinerary or prints "Data Integrity Error" and calls sys.exit(1)
load_itinerary ==
    /\ front = "none"
    /\ front' = "cli"
    /\ LET xlsx == lower(file.suffix) = ".xlsx"
           reading == IF xlsx THEN Banner("Reading Excel file")
                      ELSE Banner("Reading YAML file")
           r == reader_parse(file, raw, sheet)
           exit(lines) == /\ out' = <<Banner("Ingesting")>> \o lines
                          /\ cli_pc' = "exited"
                          /\ exit_code' = 1
                          /\ UNCHANGED <<itinerary, idx, failures>>
       IN
       IF ~file.exists
       THEN exit(<<Banner("File not found")>>)
       ELSE IF lower(file.suffix) \notin {".xlsx", ".yaml", ".yml"}
       THEN exit(<<Banner("Unsupported file type")>>)
       ELSE IF r.raised
       THEN exit(<<reading, Banner("Error processing file")>>)
       ELSE LET it == Itinerary(r.value)
                read == IF xlsx
                        THEN <<reading, Banner("Excel file successfully parsed")>>
                        ELSE <<reading>>
            IN  IF it = NoItinerary
                THEN exit(read \o <<Banner("Data Integrity Error")>>)
                ELSE /\ out' = <<Banner("Ingesting")>> \o read
                               \o <<Banner("Validating Trip"), Banner("-")>>
                     /\ itinerary' = it
                     /\ cli_pc' = "checks"
                     /\ idx' = 1
                     /\ failures' = 0
                     /\ UNCHANGED exit_code
    /\ UNCHANGED <<raw, response, metrics>>
    /\ UNCHANGED <<model_vars, engine_vars, file_vars, rest_vars>>

\* variant of the loop: the result of run is tested as a whole, which is
\* always true, so no failure is counted
main_loop_uncounted ==
    /\ front = "cli"
    /\ cli_pc = "checks"
    /\ idx <= Len(get_all_checks)
    /\ LET r == run(get_all_checks[idx], itinerary) IN
       IF r.raised
       THEN /\ out' = Append(out, Banner("Traceback"))
            /\ cli_pc' = "crashed"
            /\ exit_code' = 1
            /\ UNCHANGED <<idx, failures>>
       ELSE /\ out' = Append(out,
                         IF r.value.passed
                         THEN Line("PASS", r.value.check_name, NoMessage, 0)
                         ELSE Line("FAIL", r.value.check_name, r.value.message, 0))
            /\ failures' = failures
            /\ idx' = idx + 1
            /\ UNCHANGED <<cli_pc, exit_code>>
    /\ UNCHANGED <<raw, front, itinerary, response, metrics>>
    /\ UNCHANGED <<model_vars, engine_vars, file_vars, rest_vars>>

\* variant of the loop: the first failed check ends the run
main_loop_stop_at_failure ==
    /\ front = "cli"
    /\ cli_pc = "checks"
    /\ idx <= Len(get_all_checks)
    /\ LET r == run(get_all_checks[idx], itinerary) IN
       IF r.raised
       THEN /\ out' = Append(out, Banner("Traceback"))
            /\ cli_pc' = "crashed"
            /\ exit_code' = 1
            /\ UNCHANGED <<idx, failures>>
       ELSE IF r.value.passed
       THEN /\ out' = Append(out, Line("PASS", r.value.check_name, NoMessage, 0))
            /\ idx' = idx + 1
            /\ UNCHANGED <<cli_pc, exit_code, failures>>
       ELSE /\ out' = out \o <<Line("FAIL", r.value.check_name, r.value.message, 0),
                               Line("GROUNDED", "", NoMessage, failures + 1)>>
            /\ failures' = failures + 1
            /\ cli_pc' = "exited"
            /\ exit_code' = 1
            /\ UNCHANGED idx
    /\ UNCHANGED <<raw, front, itinerary, response, metrics>>
    /\ UNCHANGED <<model_vars, engine_vars, file_vars, rest_vars>>

\* variant of the loop of main(): each turn reverses the list of flights
main_loop_reordering ==
    /\ front = "cli"
    /\ cli_pc = "checks"
    /\ idx <= Len(get_all_checks)
    /\ LET r == run(get_all_checks[idx], itinerary) IN
       IF r.raised
       THEN /\ out' = Append(out, Banner("Traceback"))
            /\ cli_pc' = "crashed"
            /\ exit_code' = 1
            /\ UNCHANGED <<idx, failures>>
       ELSE /\ out' = Append(out,
                         IF r.value.passed
                         THEN Line("PASS", r.value.check_name, NoMessage, 0)
                         ELSE Line("FAIL", r.value.check_name, r.value.message, 0))
            /\ failures' = IF r.value.passed THEN failures ELSE failures + 1
            /\ idx' = idx + 1
            /\ UNCHANGED <<cli_pc, exit_code>>
    /\ itinerary' = [itinerary EXCEPT !.flights =
                         [k \in 1..Len(@) |-> @[Len(@) + 1 - k]]]
    /\ UNCHANGED <<raw, front, response, metrics>>
    /\ UNCHANGED <<model_vars, engine_vars, file_vars, rest_vars>>

\* one turn of "for check in checks": run the check and print its line; an
\* exception of run is not caught in main(), the interpreter prints the
\* traceback and the process ends with code 1
main_loop ==
    /\ front = "cli"
    /\ cli_pc = "checks"
    /\ idx <= Len(get_all_checks)
    /\ LET r == run(get_all_checks[idx], itinerary) IN
       IF r.raised
       THEN /\ out' = Append(out, Banner("Traceback"))
            /\ cli_pc' = "crashed"
            /\ exit_code' = 1
            /\ UNCHANGED <<idx, failures>>
       ELSE /\ out' = Append(out,
                         IF r.value.passed
                         THEN Line("PASS", r.value.check_name, NoMessage, 0)
                         ELSE Line("FAIL", r.value.check_name, r.value.message, 0))
            /\ failures' = IF r.value.passed THEN failures ELSE failures + 1
            /\ idx' = idx + 1
            /\ UNCHANGED <<cli_pc, exit_code>>
    /\ UNCHANGED <<raw, front, itinerary, response, metrics>>
    /\ UNCHANGED <<model_vars, engine_vars, file_vars, rest_vars>>

\* variant of the status of main(): GROUNDED is printed with the number of
\* checks that were run
main_status_count_runs ==
    /\ front = "cli"
    /\ cli_pc = "checks"
    /\ idx > Len(get_all_checks)
    /\ IF failures = 0
       THEN /\ out' = out \o <<Banner("-"), Banner("READY")>>
            /\ cli_pc' = "returned"
            /\ exit_code' = 0
       ELSE /\ out' = out \o <<Banner("-"), Line("GROUNDED", "", NoMessage, idx - 1)>>
            /\ cli_pc' = "exited"
            /\ exit_code' = 1
    /\ UNCHANGED <<raw, front, itinerary, idx, failures, response, metrics>>
    /\ UNCHANGED <<model_vars, engine_vars, file_vars, rest_vars>>

\* main() after the loop: the status line, and sys.exit(1) when grounded
main_status ==
    /\ front = "cli"
    /\ cli_pc = "checks"
    /\ idx > Len(get_all_checks)
    /\ IF failures = 0
       THEN /\ out' = out \o <<Banner("-"), Banner("READY")>>
            /\ cli_pc' = "returned"
            /\ exit_code' = 0
       ELSE /\ out' = out \o <<Banner("-"), Line("GROUNDED", "", NoMessage, failures)>>
            /\ cli_pc' = "exited"
            /\ exit_code' = 1
    /\ UNCHANGED <<raw, front, itinerary, idx, failures, response, metrics>>
    /\ UNCHANGED <<model_vars, engine_vars, file_vars, rest_vars>>

----------------------------------------------------------------------------
(* src/main.py: the top-level script *)

\* bool(v) of a CheckResult: the dataclass defines neither __bool__ nor
\* __len__, so every instance is true
truthy(v) == TRUE

\* main() of the script up to the loop, with its own load_itinerary
script_load_itinerary ==
    /\ front = "none"
    /\ front' = "script"
    /\ LET it == Itinerary(raw) IN
       IF it = NoItinerary
       THEN /\ out' = <<Banner("Ingesting"), Banner("Reading YAML file"),
                        Banner("Data Integrity Error")>>
            /\ cli_pc' = "exited"
            /\ exit_code' = 1
            /\ UNCHANGED <<itinerary, idx, failures>>
       ELSE /\ out' = <<Banner("Ingesting"), Banner("Reading YAML file"),
                        Banner("Validating Trip"), Banner("-")>>
            /\ itinerary' = it
            /\ cli_pc' = "checks"
            /\ idx' = 1
            /\ failures' = 0
            /\ UNCHANGED exit_code
    /\ UNCHANGED <<raw, response, metrics>>
    /\ UNCHANGED <<model_vars, engine_vars, file_vars, rest_vars>>

\* one turn of the loop of the script: passed = check.run(itinerary), and
\* "if not passed" counts a failure; nothing is printed
script_main_loop ==
    /\ front = "script"
    /\ cli_pc = "checks"
    /\ idx <= Len(get_all_checks)
    /\ LET r == run(get_all_checks[idx], itinerary) IN
       IF r.raised
       THEN /\ out' = Append(out, Banner("Traceback"))
            /\ cli_pc' = "crashed"
            /\ exit_code' = 1
            /\ UNCHANGED <<idx, failures>>
       ELSE /\ failures' = IF ~truthy(r.value) THEN failures + 1 ELSE failures
            /\ idx' = idx + 1
            /\ UNCHANGED <<out, cli_pc, exit_code>>
    /\ UNCHANGED <<raw, front, itinerary, response, metrics>>
    /\ UNCHANGED <<model_vars, engine_vars, file_vars, rest_vars>>

\* main() of the script after the loop
script_main_status ==
    /\ front = "script"
    /\ cli_pc = "checks"
    /\ idx > Len(get_all_checks)
    /\ IF failures = 0
       THEN /\ out' = out \o <<Banner("-"), Banner("READY")>>
            /\ cli_pc' = "returned"
            /\ exit_code' = 0
       ELSE /\ out' = out \o <<Banner("-"), Line("GROUNDED", "", NoMessage, failures)>>
            /\ cli_pc' = "exited"
            /\ exit_code' = 1
    /\ UNCHANGED <<raw, front, itinerary, idx, failures, response, metrics>>
    /\ UNCHANGED <<model_vars, engine_vars, file_vars, rest_vars>>

----------------------------------------------------------------------------
(* src/src/api.py: POST /validate *)

NoResponse == [status_code |-> 0, body |-> [error |-> "none"]]

\* metrics.record_validation_request(source_type), then
\* metrics.record_validation_check(check_name, passed) for each result
record_validation(source_type, check_results) ==
    <<[counter |-> "validation_requests_total", labels |-> <<source_type>>]>>
    \o [i \in 1..Len(check_results) |->
           [counter |-> "validation_checks_total",
            labels |-> <<check_results[i].check_name,
                         IF check_results[i].passed THEN "pass" ELSE "fail">>]]

\* variant of ValidationResponse: the passed count counts every result
ValidationResponse_count_all(data, check_results) ==
    LET api_checks == [i \in 1..Len(check_results) |->
                          [check_name |-> check_results[i].check_name,
                           passed |-> check_results[i].passed,
                           message |-> check_results[i].message]]
        passed_count == Len(check_results)
        failed_count == Len(check_results) - passed_count
    IN  [status |-> IF failed_count = 0 THEN "success" ELSE "failed",
         destination |-> data.trip_details.destination,
         total_checks |-> Len(check_results),
         passed_checks |-> passed_count,
         failed_checks |-> failed_count,
         checks |-> api_checks]

\* ValidationResponse built from the results of run_all_checks
ValidationResponse(data, check_results) ==
    LET api_checks == [i \in 1..Len(check_results) |->
                          [check_name |-> check_results[i].check_name,
                           passed |-> check_results[i].passed,
                           message |-> check_results[i].message]]
        passed_count == Cardinality({i \in 1..Len(check_results) :
                                        check_results[i].passed})
        failed_count == Len(check_results) - passed_count
    IN  [status |-> IF failed_count = 0 THEN "success" ELSE "failed",
         destination |-> data.trip_details.destination,
         total_checks |-> Len(check_results),
         passed_checks |-> passed_count,
         failed_checks |-> failed_count,
         checks |-> api_checks]

\* variant of validate_itinerary: an exception of the engine is caught and
\* answered as a failed validation
validate_itinerary_caught ==
    /\ front = "none"
    /\ front' = "api"
    /\ \E enable_metrics \in BOOLEAN :
       LET it == Itinerary(raw) IN
       IF it = NoItinerary
       THEN /\ response' = [status_code |-> 422, body |-> [error |-> "ValidationError"]]
            /\ UNCHANGED <<itinerary, metrics>>
       ELSE /\ itinerary' = it
            /\ LET r == run_all_checks(it) IN
               IF r.raised
               THEN /\ response' = [status_code |-> 200,
                                    body |-> [status |-> "failed",
                                              destination |-> it.trip_details.destination,
                                              total_checks |-> 0, passed_checks |-> 0,
                                              failed_checks |-> 0, checks |-> <<>>]]
                    /\ UNCHANGED metrics
               ELSE /\ response' = [status_code |-> 200,
                                    body |-> ValidationResponse(it, r.value)]
                    /\ metrics' = IF enable_metrics
                                  THEN metrics \o record_validation("json", r.value)
                                  ELSE metrics
    /\ UNCHANGED <<raw, cli_pc, idx, failures, out, exit_code>>
    /\ UNCHANGED <<model_vars, engine_vars, file_vars, rest_vars>>

\* validate_itinerary: the body is parsed into an Itinerary by the framework
\* (422 when that fails); an exception out of the handler is answered 500;
\* enable_metrics is settings.enable_metrics
validate_itinerary ==
    /\ front = "none"
    /\ front' = "api"
    /\ \E enable_metrics \in BOOLEAN :
       LET it == Itinerary(raw) IN
       IF it = NoItinerary
       THEN /\ response' = [status_code |-> 422, body |-> [error |-> "ValidationError"]]
            /\ UNCHANGED <<itinerary, metrics>>
       ELSE /\ itinerary' = it
            /\ LET r == run_all_checks(it) IN
               IF r.raised
               THEN /\ response' = [status_code |-> 500,
                                    body |-> [error |-> "Internal Server Error"]]
                    /\ UNCHANGED metrics
               ELSE /\ response' = [status_code |-> 200,
                                    body |-> ValidationResponse(it, r.value)]
                    /\ metrics' = IF enable_metrics
                                  THEN metrics \o record_validation("json", r.value)
                                  ELSE metrics
    /\ UNCHANGED <<raw, cli_pc, idx, failures, out, exit_code>>
    /\ UNCHANGED <<model_vars, engine_vars, file_vars, rest_vars>>

----------------------------------------------------------------------------
(* src/src/core/model.py: construction from a raw mapping, serialization *)

\* the longest flight number of a raw mapping
MaxNumberLen == 4

NumberChars == <<"N", "H", "1", "2", "3">>

\* the flight number of n characters
Number(n) == [i \in 1..n |-> NumberChars[((i - 1) % Len(NumberChars)) + 1]]

\* The value of a date key of a raw mapping: "none" is an absent key or None,
\* "text" a 'YYYY-MM-DD' string, "object" a datetime.date (what yaml.safe_load
\* makes of an unquoted date), "garbled" a string that is no calendar date.
NoValue == [form |-> "none", day |-> NoDate]
Garbled == [form |-> "garbled", day |-> NoDate]
DateText(d) == [form |-> "text", day |-> d]
DateObject(d) == [form |-> "object", day |-> d]

\* The value of an int key of a raw mapping: an int or a string of digits
IntValue(n) == [form |-> "int", n |-> n]
IntText(n) == [form |-> "text", n |-> n]

\* one line of a pydantic ValidationError: where it is, what it says and the
\* field it speaks of
Error(field, msg, about) == [field |-> field, msg |-> msg, about |-> about]

\* the errors of a date field: the parse of the value as a calendar date
date_errors(field, v) ==
    IF v.form = "garbled" THEN {Error(field, "date_from_datetime_parsing", field)} ELSE {}

\* the errors of the fields of Flight(**m), collected field by field
Flight_field_errors(m) ==
    (IF "type" \notin m.given THEN {Error("type", "Field required", "type")}
     ELSE IF m.type \notin FlightTypes THEN {Error("type", "literal_error", "type")}
     ELSE {})
    \cup
    (IF "flight_number" \notin m.given
     THEN {Error("flight_number", "Field required", "flight_number")}
     ELSE IF ~validate_flight_code(m.flight_number)
     THEN {Error("flight_number", "Invalid Flight Number", "flight_number")}
     ELSE {})
    \cup date_errors("arrival_date", m.arrival_date)
    \cup date_errors("departure_date", m.departure_date)

\* Flight.validate_flight_date: the ValueError it raises, its first violated rule
validate_flight_date_error(f) ==
    IF f.type = "arrival" /\ f.arrival_date = NoDate
    THEN {Error("", "Arrival flights must have arrival_date", "arrival_date")}
    ELSE IF f.type = "departure" /\ f.departure_date = NoDate
    THEN {Error("", "Departure flights must have departure_date", "departure_date")}
    ELSE IF f.type = "arrival" /\ f.departure_date # NoDate
    THEN {Error("", "Arrival flights should not have departure_date", "departure_date")}
    ELSE IF f.type = "departure" /\ f.arrival_date # NoDate
    THEN {Error("", "Departure flights should not have arrival_date", "arrival_date")}
    ELSE {}

NoFlight == [error |-> "ValidationError"]

\* Flight(**m): the model validator runs only when every field validated
Flight(m) ==
    LET fe == Flight_field_errors(m)
        f == [type |-> m.type, flight_number |-> m.flight_number,
              arrival_date |-> m.arrival_date.day,
              departure_date |-> m.departure_date.day]
    IN  IF fe # {}
        THEN [ok |-> FALSE, value |-> NoFlight, errors |-> fe]
        ELSE IF ~validate_flight_date(f)
        THEN [ok |-> FALSE, value |-> NoFlight, errors |-> validate_flight_date_error(f)]
        ELSE [ok |-> TRUE, value |-> f, errors |-> {}]

\* an error of a part of the itinerary: loc = (part, index, field)
At(part, index, e) ==
    [part |-> part, index |-> index, field |-> e.field, msg |-> e.msg, about |-> e.about]

\* the errors of Itinerary(**m), of all its parts
Itinerary_errors(m) ==
    UNION {{At("flights", i, e) : e \in Flight(m.flights[i]).errors} : i \in 1..Len(m.flights)}
    \cup {At("trip_details", 0, e) : e \in date_errors("start_date", m.trip_details.start_date)
                                          \cup date_errors("end_date", m.trip_details.end_date)}
    \cup {At("accommodation", 0, e) : e \in date_errors("check_in", m.accommodation.check_in)
                                           \cup date_errors("check_out", m.accommodation.check_out)}

NotBuilt == [built |-> FALSE, ok |-> FALSE, value |-> NoItinerary, errors |-> {}]

\* Itinerary(**m) on a raw mapping as it is read: the typed Itinerary, or the
\* ValidationError with its lines
Itinerary_validate(m) ==
    LET errs == Itinerary_errors(m) IN
    IF errs # {}
    THEN [built |-> TRUE, ok |-> FALSE, value |-> NoItinerary, errors |-> errs]
    ELSE [built |-> TRUE, ok |-> TRUE,
          value |-> [trip_details |->
                        [destination |-> m.trip_details.destination,
                         start_date |-> m.trip_details.start_date.day,
                         end_date |-> m.trip_details.end_date.day,
                         total_duration_days |-> m.trip_details.total_duration_days.n],
                     flights |-> [i \in 1..Len(m.flights) |-> Flight(m.flights[i]).value],
                     accommodation |->
                        [hotel_name |-> m.accommodation.hotel_name,
                         check_in |-> m.accommodation.check_in.day,
                         check_out |-> m.accommodation.check_out.day]],
          errors |-> {}]

\* a date in Python mode: the datetime.date itself
dump_date_python(d) == IF d = NoDate THEN NoValue ELSE DateObject(d)

\* a date in JSON mode: its isoformat
dump_date(d) == IF d = NoDate THEN NoValue ELSE DateText(d)

\* model_dump of an Itinerary with the dates as datetime.date
model_dump_python(it) ==
    [trip_details |->
        [destination |-> it.trip_details.destination,
         start_date |-> dump_date_python(it.trip_details.start_date),
         end_date |-> dump_date_python(it.trip_details.end_date),
         total_duration_days |-> IntValue(it.trip_details.total_duration_days)],
     flights |-> [i \in 1..Len(it.flights) |->
        [given |-> {"type", "flight_number"},
         type |-> it.flights[i].type,
         flight_number |-> it.flights[i].flight_number,
         arrival_date |-> dump_date_python(it.flights[i].arrival_date),
         departure_date |-> dump_date_python(it.flights[i].departure_date)]],
     accommodation |->
        [hotel_name |-> it.accommodation.hotel_name,
         check_in |-> dump_date_python(it.accommodation.check_in),
         check_out |-> dump_date_python(it.accommodation.check_out)]]

\* model_dump(mode='json') of an Itinerary: the mapping of its fields
model_dump(it) ==
    [trip_details |->
        [destination |-> it.trip_details.destination,
         start_date |-> dump_date(it.trip_details.start_date),
         end_date |-> dump_date(it.trip_details.end_date),
         total_duration_days |-> IntValue(it.trip_details.total_duration_days)],
     flights |-> [i \in 1..Len(it.flights) |->
        [given |-> {"type", "flight_number"},
         type |-> it.flights[i].type,
         flight_number |-> it.flights[i].flight_number,
         arrival_date |-> dump_date(it.flights[i].arrival_date),
         departure_date |-> dump_date(it.flights[i].departure_date)]],
     accommodation |->
        [hotel_name |-> it.accommodation.hotel_name,
         check_in |-> dump_date(it.accommodation.check_in),
         check_out |-> dump_date(it.accommodation.check_out)]]

NoMapping == [none |-> TRUE]

NotDumped == [none |-> TRUE, dumped |-> FALSE]

\* Itinerary(**mapping)
construct ==
    /\ mapping # NoMapping
    /\ built = NotBuilt
    /\ built' = Itinerary_validate(mapping)
    /\ UNCHANGED <<mapping, dumped>>
    /\ UNCHANGED <<front_vars, engine_vars, file_vars, rest_vars>>

\* the constructed Itinerary serialized back
dump ==
    /\ built.ok
    /\ dumped = NotDumped
    /\ dumped' = model_dump(built.value)
    /\ UNCHANGED <<mapping, built>>
    /\ UNCHANGED <<front_vars, engine_vars, file_vars, rest_vars>>

----------------------------------------------------------------------------
(* src/src/validation.py: the checks run one by one *)

NotRun == [not_run |-> TRUE]

\* variant of a run of a check: the run takes the first flight off the list
run_check_consuming ==
    /\ itinerary # NoItinerary
    /\ \E i \in 1..Len(get_all_checks) :
          /\ results' = [results EXCEPT ![i] = run(get_all_checks[i], itinerary)]
          /\ rerun' = (rerun \/ results[i] # NotRun)
          /\ itinerary' = IF itinerary.flights = <<>> THEN itinerary
                          ELSE [itinerary EXCEPT !.flights = Tail(@)]
    /\ UNCHANGED <<raw, front, cli_pc, idx, failures, out, exit_code, response, metrics>>
    /\ UNCHANGED <<model_vars, file_vars, rest_vars>>

\* variant of a run of a check: Duration Coverage moves the check-in to the
\* start of the trip before it measures the stay
run_check_normalising ==
    /\ itinerary # NoItinerary
    /\ \E i \in 1..Len(get_all_checks) :
          LET data == IF get_all_checks[i].class = "DurationCoverageCheck"
                      THEN [itinerary EXCEPT !.accommodation.check_in =
                                                 itinerary.trip_details.start_date]
                      ELSE itinerary
          IN  /\ results' = [results EXCEPT ![i] = run(get_all_checks[i], data)]
              /\ rerun' = (rerun \/ results[i] # NotRun)
              /\ itinerary' = data
    /\ UNCHANGED <<raw, front, cli_pc, idx, failures, out, exit_code, response, metrics>>
    /\ UNCHANGED <<model_vars, file_vars, rest_vars>>

\* check.run(itinerary) of the i-th check, in any order and any number of times
run_check ==
    /\ itinerary # NoItinerary
    /\ \E i \in 1..Len(get_all_checks) :
          /\ results' = [results EXCEPT ![i] = run(get_all_checks[i], itinerary)]
          /\ rerun' = (rerun \/ results[i] # NotRun)
    /\ UNCHANGED <<front_vars, model_vars, file_vars, rest_vars>>

----------------------------------------------------------------------------
(* Idle values of the parts a specification leaves alone *)

\* an existing YAML file that holds a mapping
YamlFile == [exists |-> TRUE, suffix |-> ".yaml", content |-> "mapping"]

\* the defaults of Settings
DefaultSettings == [notion_api_token |-> "", notion_page_id |-> ""]

\* a Notion workspace that takes pages and holds none
NoPages == [up |-> TRUE, pages |-> <<>>]

NoRequest == [path |-> "", outcome |-> [raised |-> FALSE, value |-> 0], request_id |-> 0]

NoRequestId == 0

NothingSent == [kind |-> "nothing"]

IdleFile ==
    /\ file = YamlFile
    /\ temp_file = "none"
    /\ settings = DefaultSettings
    /\ notion = NoPages

IdleExcel ==
    /\ sheet = NoSheet
    /\ parsed = NotParsed

IdleDispatch ==
    /\ request = NoRequest
    /\ request_id_var = NoRequestId
    /\ dispatch_pc = "idle"
    /\ sent = NothingSent
    /\ log = <<>>

----------------------------------------------------------------------------
(* src/src/api.py: POST /upload *)

\* Settings.allowed_file_extensions
allowed_file_extensions == {".xlsx", ".yaml", ".yml"}

\* the increments of the metric counters of an upload, in the order of the code
record_upload(source_type, file_ext, check_results) ==
    <<[counter |-> "validation_requests_total", labels |-> <<source_type>>],
      [counter |-> "file_uploads_total", labels |-> <<file_ext, "true">>]>>
    \o Tail(record_validation(source_type, check_results))

\* variant of the start of the handler: the temporary file is written before
\* the extension is looked at
upload_and_validate_begin_store_first ==
    /\ front = "none"
    /\ file.exists
    /\ front' = "upload"
    /\ \E stored \in BOOLEAN :
          IF ~stored
          THEN /\ temp_file' = "created"
               /\ response' = [status_code |-> 500,
                               body |-> [error |-> "Internal Server Error"]]
          ELSE IF lower(file.suffix) \notin allowed_file_extensions
          THEN /\ temp_file' = "written"
               /\ response' = [status_code |-> 400,
                               body |-> [error |-> "Unsupported file type"]]
          ELSE /\ temp_file' = "written"
               /\ UNCHANGED response
    /\ UNCHANGED <<raw, itinerary, cli_pc, idx, failures, out, exit_code, metrics>>
    /\ UNCHANGED <<file, settings, notion>>
    /\ UNCHANGED <<model_vars, engine_vars, rest_vars>>

\* upload_and_validate up to the try statement: the extension is checked,
\* then the temporary file is created (delete=False) and the content of the
\* upload is read and written into it; a failure of the read or of the write
\* leaves the handler with the file created
upload_and_validate_begin ==
    /\ front = "none"
    /\ file.exists
    /\ front' = "upload"
    /\ IF lower(file.suffix) \notin allowed_file_extensions
       THEN /\ response' = [status_code |-> 400,
                            body |-> [error |-> "Unsupported file type"]]
            /\ UNCHANGED temp_file
       ELSE \E stored \in BOOLEAN :
               IF stored
               THEN /\ temp_file' = "written"
                    /\ UNCHANGED response
               ELSE /\ temp_file' = "created"
                    /\ response' = [status_code |-> 500,
                                    body |-> [error |-> "Internal Server Error"]]
    /\ UNCHANGED <<raw, itinerary, cli_pc, idx, failures, out, exit_code, metrics>>
    /\ UNCHANGED <<file, settings, notion>>
    /\ UNCHANGED <<model_vars, engine_vars, rest_vars>>

\* the try statement of upload_and_validate with its finally clause: parse,
\* construct, run the checks, record, answer; the temporary file is unlinked
upload_and_validate_try ==
    /\ front = "upload"
    /\ temp_file = "written"
    /\ response = NoResponse
    /\ \E enable_metrics \in BOOLEAN :
       LET r == reader_parse(file, raw, sheet) IN
       IF r.raised
       THEN /\ response' = [status_code |-> 400, body |-> [error |-> "ValueError"]]
            /\ UNCHANGED <<itinerary, metrics>>
       ELSE LET it == Itinerary(r.value) IN
            IF it = NoItinerary
            THEN /\ response' = [status_code |-> 422, body |-> [error |-> "ValidationError"]]
                 /\ UNCHANGED <<itinerary, metrics>>
            ELSE /\ itinerary' = it
                 /\ LET c == run_all_checks(it) IN
                    IF c.raised
                    THEN /\ response' = [status_code |-> 500,
                                         body |-> [error |-> "Internal Server Error"]]
                         /\ UNCHANGED metrics
                    ELSE /\ response' = [status_code |-> 200,
                                         body |-> ValidationResponse(it, c.value)]
                         /\ metrics' = IF enable_metrics
                                       THEN metrics \o record_upload(
                                               IF lower(file.suffix) = ".xlsx"
                                               THEN "excel" ELSE "yaml",
                                               lower(file.suffix), c.value)
                                       ELSE metrics
    /\ temp_file' = "removed"
    /\ UNCHANGED <<raw, front, cli_pc, idx, failures, out, exit_code>>
    /\ UNCHANGED <<file, settings, notion>>
    /\ UNCHANGED <<model_vars, engine_vars, rest_vars>>

----------------------------------------------------------------------------
(* src/src/api.py: POST /export/notion *)

\* Settings.notion_enabled
notion_enabled(st) == st.notion_api_token # "" /\ st.notion_page_id # ""

\* variant of the handler: a failure of the export is not caught
export_to_notion_endpoint_uncaught ==
    /\ front = "none"
    /\ front' = "notion"
    /\ \E enable_metrics \in BOOLEAN :
       LET it == Itinerary(raw) IN
       IF it = NoItinerary
       THEN /\ response' = [status_code |-> 422, body |-> [error |-> "ValidationError"]]
            /\ UNCHANGED <<itinerary, metrics, notion>>
       ELSE /\ itinerary' = it
            /\ IF ~notion_enabled(settings)
               THEN /\ response' = [status_code |-> 503,
                                    body |-> [error |-> "NotionNotConfigured"]]
                    /\ UNCHANGED <<metrics, notion>>
               ELSE LET c == run_all_checks(it) IN
                    IF c.raised
                    THEN /\ response' = [status_code |-> 500,
                                         body |-> [error |-> "Internal Server Error"]]
                         /\ UNCHANGED <<metrics, notion>>
                    ELSE /\ metrics' = IF enable_metrics
                                       THEN metrics \o record_validation("json", c.value)
                                       ELSE metrics
                         /\ IF notion.up
                            THEN /\ notion' = [notion EXCEPT !.pages =
                                                 Append(@, ValidationResponse(it, c.value))]
                                 /\ response' =
                                       [status_code |-> 200,
                                        body |-> ValidationResponse(it, c.value)
                                                 @@ [notion_export |-> [notion_url |-> "url"]]]
                            ELSE /\ UNCHANGED notion
                                 /\ response' = [status_code |-> 500,
                                                 body |-> [error |-> "Internal Server Error"]]
    /\ UNCHANGED <<raw, cli_pc, idx, failures, out, exit_code>>
    /\ UNCHANGED <<file, temp_file, settings>>
    /\ UNCHANGED <<model_vars, engine_vars, rest_vars>>

\* export_to_notion_endpoint: FastAPI constructs the Itinerary of the body
\* (422 when it cannot); 503 when Notion is not configured; then the checks,
\* the metrics, the response, and the export, whose failure is answered 207
export_to_notion_endpoint ==
    /\ front = "none"
    /\ front' = "notion"
    /\ \E enable_metrics \in BOOLEAN :
       LET it == Itinerary(raw) IN
       IF it = NoItinerary
       THEN /\ response' = [status_code |-> 422, body |-> [error |-> "ValidationError"]]
            /\ UNCHANGED <<itinerary, metrics, notion>>
       ELSE /\ itinerary' = it
            /\ IF ~notion_enabled(settings)
               THEN /\ response' = [status_code |-> 503,
                                    body |-> [error |-> "NotionNotConfigured"]]
                    /\ UNCHANGED <<metrics, notion>>
               ELSE LET c == run_all_checks(it) IN
                    IF c.raised
                    THEN /\ response' = [status_code |-> 500,
                                         body |-> [error |-> "Internal Server Error"]]
                         /\ UNCHANGED <<metrics, notion>>
                    ELSE /\ metrics' = IF enable_metrics
                                       THEN metrics \o record_validation("json", c.value)
                                       ELSE metrics
                         /\ IF notion.up
                            THEN /\ notion' = [notion EXCEPT !.pages =
                                                 Append(@, ValidationResponse(it, c.value))]
                                 /\ response' =
                                       [status_code |-> 200,
                                        body |-> ValidationResponse(it, c.value)
                                                 @@ [notion_export |-> [notion_url |-> "url"]]]
                            ELSE /\ UNCHANGED notion
                                 /\ response' =
                                       [status_code |-> 207,
                                        body |-> ValidationResponse(it, c.value)
                                                 @@ [notion_export |->
                                                       [error |-> "APIResponseError",
                                                        message |-> "Validation completed but Notion export failed"]]]
    /\ UNCHANGED <<raw, cli_pc, idx, failures, out, exit_code>>
    /\ UNCHANGED <<file, temp_file, settings>>
    /\ UNCHANGED <<model_vars, engine_vars, rest_vars>>

----------------------------------------------------------------------------
(* src/src/middleware.py, src/src/logging_config.py *)

\* the request IDs uuid.uuid4() draws from
MaxRequestId == 3

RequestIds == 1..MaxRequestId

\* a log record as CustomJsonFormatter writes it: the request ID of the
\* context is added when there is one
LogRecord(level, message, status_code) ==
    [level |-> level, message |-> message, status_code |-> status_code,
     request_id |-> request_id_var]

\* dispatch up to "await call_next(request)": set_request_id() draws the ID,
\* request.state keeps it, "Request started" is logged
dispatch_begin ==
    /\ request # NoRequest
    /\ dispatch_pc = "idle"
    /\ \E id \in RequestIds :
          /\ request_id_var' = id
          /\ request' = [request EXCEPT !.request_id = id]
          /\ log' = Append(log, [LogRecord("INFO", "Request started", 0)
                                    EXCEPT !.request_id = id])
    /\ dispatch_pc' = "called"
    /\ UNCHANGED sent
    /\ UNCHANGED <<front_vars, model_vars, engine_vars, file_vars, excel_vars>>

\* variant of the rest of dispatch: the ID is cleared only after a response
dispatch_end_no_finally ==
    /\ dispatch_pc = "called"
    /\ IF request.outcome.raised
       THEN /\ log' = Append(log, LogRecord("ERROR", "Request failed", 0))
            /\ sent' = [kind |-> "raised", error |-> request.outcome.value]
            /\ dispatch_pc' = "raised"
            /\ UNCHANGED request_id_var
       ELSE /\ log' = Append(log, LogRecord("INFO", "Request completed",
                                            request.outcome.value))
            /\ sent' = [kind |-> "response", status_code |-> request.outcome.value,
                        headers |-> [X_Request_ID |-> request.request_id]]
            /\ dispatch_pc' = "returned"
            /\ request_id_var' = NoRequestId
    /\ UNCHANGED request
    /\ UNCHANGED <<front_vars, model_vars, engine_vars, file_vars, excel_vars>>

\* dispatch from the return of call_next on: the response is logged and gets
\* the X-Request-ID header, an exception is logged and raised again, and the
\* finally clause calls clear_request_id()
dispatch_end ==
    /\ dispatch_pc = "called"
    /\ IF request.outcome.raised
       THEN /\ log' = Append(log, LogRecord("ERROR", "Request failed", 0))
            /\ sent' = [kind |-> "raised", error |-> request.outcome.value]
            /\ dispatch_pc' = "raised"
       ELSE /\ log' = Append(log, LogRecord("INFO", "Request completed",
                                            request.outcome.value))
            /\ sent' = [kind |-> "response", status_code |-> request.outcome.value,
                        headers |-> [X_Request_ID |-> request.request_id]]
            /\ dispatch_pc' = "returned"
    /\ request_id_var' = NoRequestId
    /\ UNCHANGED request
    /\ UNCHANGED <<front_vars, model_vars, engine_vars, file_vars, excel_vars>>

----------------------------------------------------------------------------
(* The inputs and the specification *)

FlightNumber == <<"N", "H", "1">>
ShortFlightNumber == <<"A", "B">>

\* the well-formed flights
GoodFlights ==
    {[type |-> "arrival", flight_number |-> FlightNumber,
      arrival_date |-> d, departure_date |-> NoDate] : d \in Days}
    \cup
    {[type |-> "departure", flight_number |-> FlightNumber,
      arrival_date |-> NoDate, departure_date |-> d] : d \in Days}

\* flights that pydantic rejects: a short flight number, a missing date
BadFlights ==
    {[type |-> "arrival", flight_number |-> ShortFlightNumber,
      arrival_date |-> 1, departure_date |-> NoDate],
     [type |-> "departure", flight_number |-> FlightNumber,
      arrival_date |-> NoDate, departure_date |-> NoDate]}

RawFlights == GoodFlights \cup BadFlights

StartDates == {1}

RawMappings ==
    [trip_details : [destination : {"Tokyo"}, start_date : StartDates,
                     end_date : Days, total_duration_days : Durations],
     flights : UNION {[1..n -> RawFlights] : n \in 0..MaxFlights},
     accommodation : [hotel_name : {"Park Hyatt"}, check_in : Days, check_out : Days]]

Init ==
    /\ raw \in RawMappings
    /\ front = "none"
    /\ itinerary = NoItinerary
    /\ cli_pc = "idle"
    /\ idx = 0
    /\ failures = 0
    /\ out = <<>>
    /\ exit_code = NoExit
    /\ response = NoResponse
    /\ metrics = <<>>
    /\ mapping = NoMapping
    /\ built = NotBuilt
    /\ dumped = NotDumped
    /\ results = [i \in 1..Len(get_all_checks) |-> NotRun]
    /\ rerun = FALSE
    /\ IdleFile
    /\ IdleExcel
    /\ IdleDispatch

Next ==
    \/ load_itinerary
    \/ main_loop
    \/ main_status
    \/ validate_itinerary

Spec == Init /\ [][Next]_vars

\* the top-level script run on the same inputs
NextScript ==
    \/ script_load_itinerary
    \/ script_main_loop
    \/ script_main_status

SpecScript == Init /\ [][NextScript]_vars

\* the values a date key of a raw flight takes
DateValues == {NoValue, Garbled} \cup {DateText(d) : d \in Days} \cup {DateObject(d) : d \in Days}

\* the raw flights: each required key given or not, a kind in or outside the
\* Literal, a flight number of 0..MaxNumberLen characters, any two date values
FlightMappings ==
    {[given |-> g,
      type |-> IF "type" \in g THEN t ELSE "",
      flight_number |-> IF "flight_number" \in g THEN Number(n) ELSE <<>>,
      arrival_date |-> a,
      departure_date |-> d] :
        g \in SUBSET {"type", "flight_number"}, t \in FlightTypes \cup {"layover"},
        n \in 0..MaxNumberLen, a \in DateValues, d \in DateValues}

\* the raw flights that construct, with the longest number
ValidFlightMappings ==
    {m \in FlightMappings : Flight(m).ok /\ Len(m.flight_number) = MaxNumberLen}

\* the raw itineraries: one flight of any shape or two flights that construct,
\* the start date as text or as a date, the duration as an int or as digits
ItineraryMappings ==
    {[trip_details |-> [destination |-> "Tokyo", start_date |-> s,
                        end_date |-> DateText(MaxDay), total_duration_days |-> n],
      flights |-> fl,
      accommodation |-> [hotel_name |-> "Park Hyatt", check_in |-> DateText(1),
                         check_out |-> DateText(MaxDay)]] :
        s \in {DateText(1), DateObject(1)}, n \in {IntValue(1), IntText(1)},
        fl \in [1..1 -> FlightMappings] \cup [1..2 -> ValidFlightMappings]}

\* no file was read
NoRaw ==
    [trip_details |-> [destination |-> "", start_date |-> 1, end_date |-> 1,
                       total_duration_days |-> 0],
     flights |-> <<>>,
     accommodation |-> [hotel_name |-> "", check_in |-> 1, check_out |-> 1]]

\* no front end runs
Idle ==
    /\ front = "none"
    /\ cli_pc = "idle"
    /\ idx = 0
    /\ failures = 0
    /\ out = <<>>
    /\ exit_code = NoExit
    /\ response = NoResponse
    /\ metrics = <<>>

InitModel ==
    /\ mapping \in ItineraryMappings
    /\ built = NotBuilt
    /\ dumped = NotDumped
    /\ raw = NoRaw
    /\ itinerary = NoItinerary
    /\ Idle
    /\ results = [i \in 1..Len(get_all_checks) |-> NotRun]
    /\ rerun = FALSE
    /\ IdleFile
    /\ IdleExcel
    /\ IdleDispatch

NextModel ==
    \/ construct
    \/ dump

SpecModel == InitModel /\ [][NextModel]_vars

\* the mappings that construct, with a trip that spans all the days
EngineMappings ==
    {r \in RawMappings : /\ Itinerary(r) # NoItinerary
                         /\ r.trip_details.total_duration_days = MaxDay - 1}

InitEngine ==
    /\ raw \in EngineMappings
    /\ itinerary = Itinerary(raw)
    /\ Idle
    /\ results = [i \in 1..Len(get_all_checks) |-> NotRun]
    /\ rerun = FALSE
    /\ mapping = NoMapping
    /\ built = NotBuilt
    /\ dumped = NotDumped
    /\ IdleFile
    /\ IdleExcel
    /\ IdleDispatch

NextEngine == run_check

SpecEngine == InitEngine /\ [][NextEngine]_vars

\* the workbooks: readable or not, any set of rows with a Value, a duration
\* that is a number or not
Sheets ==
    [readable : BOOLEAN, rows : SUBSET {RowOrder[i] : i \in 1..Len(RowOrder)},
     numeric : BOOLEAN] \ {NoSheet}

\* no mapping was constructed and no check was run
IdleModel ==
    /\ raw = NoRaw
    /\ itinerary = NoItinerary
    /\ mapping = NoMapping
    /\ built = NotBuilt
    /\ dumped = NotDumped
    /\ results = [i \in 1..Len(get_all_checks) |-> NotRun]
    /\ rerun = FALSE

InitExcel ==
    /\ sheet \in Sheets
    /\ parsed = NotParsed
    /\ Idle
    /\ IdleModel
    /\ IdleFile
    /\ IdleDispatch

NextExcel == parse

SpecExcel == InitExcel /\ [][NextExcel]_vars

\* the files a front end is given: a path that exists or not, its suffix, and
\* what the file holds: a YAML mapping, YAML of another shape, text that is
\* not YAML, a workbook
Files ==
    [exists : BOOLEAN, suffix : {".xlsx", ".XLSX", ".yaml", ".yml", ".txt", ""},
     content : {"mapping", "not_mapping", "invalid", "sheet"}]

TripOf(end, duration, flights, check_in, check_out) ==
    [trip_details |-> [destination |-> "Tokyo", start_date |-> 1,
                       end_date |-> end, total_duration_days |-> duration],
     flights |-> flights,
     accommodation |-> [hotel_name |-> "Park Hyatt",
                        check_in |-> check_in, check_out |-> check_out]]

ArrivalOn(d) ==
    [type |-> "arrival", flight_number |-> FlightNumber,
     arrival_date |-> d, departure_date |-> NoDate]

DepartureOn(d) ==
    [type |-> "departure", flight_number |-> FlightNumber,
     arrival_date |-> NoDate, departure_date |-> d]

\* a trip that passes every check, one that fails every check, one without a
\* departure flight, one whose first flight has a short flight number
FlowMappings ==
    {TripOf(MaxDay, MaxDay - 1, <<ArrivalOn(1), DepartureOn(MaxDay)>>, 1, MaxDay),
     TripOf(MaxDay, MaxDay, <<ArrivalOn(MaxDay), DepartureOn(1)>>, 1, 1),
     TripOf(MaxDay, MaxDay - 1, <<ArrivalOn(1)>>, 1, MaxDay),
     TripOf(MaxDay, MaxDay - 1,
            <<[ArrivalOn(1) EXCEPT !.flight_number = ShortFlightNumber]>>, 1, MaxDay)}

AllRows == {RowOrder[i] : i \in 1..Len(RowOrder)}

\* the template filled in, the template without the hotel name, without the
\* date of the arrival, with a duration that is no number, and a workbook
\* that cannot be read
FlowSheets ==
    {[readable |-> TRUE, rows |-> AllRows, numeric |-> TRUE],
     [readable |-> TRUE, rows |-> AllRows \ {"Hotel Name"}, numeric |-> TRUE],
     [readable |-> TRUE, rows |-> AllRows \ {"Arrival Date"}, numeric |-> TRUE],
     [readable |-> TRUE, rows |-> AllRows, numeric |-> FALSE],
     [readable |-> FALSE, rows |-> AllRows, numeric |-> TRUE]}

InitFlow ==
    /\ file \in Files
    /\ raw \in IF file.content = "mapping" THEN FlowMappings ELSE {NoRaw}
    /\ sheet \in IF file.content = "sheet" THEN FlowSheets ELSE {NoSheet}
    /\ parsed = NotParsed
    /\ temp_file = "none"
    /\ settings \in [notion_api_token : {"", "secret"}, notion_page_id : {"", "page"}]
    /\ notion \in [up : BOOLEAN, pages : {<<>>}]
    /\ front = "none"
    /\ itinerary = NoItinerary
    /\ cli_pc = "idle"
    /\ idx = 0
    /\ failures = 0
    /\ out = <<>>
    /\ exit_code = NoExit
    /\ response = NoResponse
    /\ metrics = <<>>
    /\ mapping = NoMapping
    /\ built = NotBuilt
    /\ dumped = NotDumped
    /\ results = [i \in 1..Len(get_all_checks) |-> NotRun]
    /\ rerun = FALSE
    /\ IdleDispatch

NextFlow ==
    \/ load_itinerary
    \/ main_loop
    \/ main_status
    \/ validate_itinerary
    \/ upload_and_validate_begin
    \/ upload_and_validate_try
    \/ export_to_notion_endpoint
    \/ run_check

SpecFlow == InitFlow /\ [][NextFlow]_vars

\* the requests: an endpoint, and what call_next does with it: a response of
\* the handler or of an exception handler, or an exception nobody handles
Requests ==
    [path : {"/validate", "/upload", "/export/notion", "/health"},
     outcome : {Return(c) : c \in {200, 207, 400, 422, 503}}
               \cup {Raise("RuntimeError"), Raise("OSError")},
     request_id : {NoRequestId}]

InitDispatch ==
    /\ request \in Requests
    /\ request_id_var = NoRequestId
    /\ dispatch_pc = "idle"
    /\ sent = NothingSent
    /\ log = <<>>
    /\ Idle
    /\ IdleModel
    /\ IdleFile
    /\ IdleExcel

NextDispatch ==
    \/ dispatch_begin
    \/ dispatch_end

SpecDispatch == InitDispatch /\ [][NextDispatch]_vars

----------------------------------------------------------------------------
(* Vocabulary of the properties *)

Constructed == itinerary # NoItinerary

HasType(flights, t) == \E i \in 1..Len(flights) : flights[i].type = t

\* position i holds the first flight of type t
IsFirstOfType(flights, t, i) ==
    /\ i \in 1..Len(flights)
    /\ flights[i].type = t
    /\ \A j \in 1..(i - 1) : flights[j].type # t

IsResultLine(l) == l.kind \in {"PASS", "FAIL"}

\* the PASS and FAIL lines the command line has printed, in order
ResultLines == SelectSeq(out, IsResultLine)

\* the command line has printed the line of check k
Printed(k) == front = "cli" /\ Len(ResultLines) >= k

\* /validate has answered with a ValidationResponse
Answered == front = "api" /\ response.status_code = 200

CheckNames ==
    <<"Arrival Date Alignment", "Full Accommodation Coverage", "Exit Strategy Alignment">>

CheckClasses ==
    <<"ArrivalAlignmentCheck", "DurationCoverageCheck", "DepartureAlignmentCheck">>

----------------------------------------------------------------------------
(* C1: get_all_checks is the three checks Arrival Alignment, Duration
   Coverage, Departure Alignment in that order, and the list run_all_checks
   returns has one result per check in the same order: the i-th result is
   the result of the i-th check and carries its name. *)
C1_FixedOrder ==
    /\ Len(get_all_checks) = 3
    /\ \A i \in 1..3 : /\ get_all_checks[i].class = CheckClasses[i]
                       /\ get_all_checks[i].name = CheckNames[i]
    /\ Answered =>
          /\ Len(response.body.checks) = 3
          /\ \A i \in 1..3 :
                /\ response.body.checks[i].check_name = CheckNames[i]
                /\ response.body.checks[i] = run(get_all_checks[i], itinerary).value

\* /validate answered for an itinerary whose three checks do not all agree
C1_Witness ==
    /\ Answered
    /\ response.body.checks[1].passed
    /\ ~response.body.checks[3].passed

(* C2: when the itinerary has an arrival flight, Arrival Alignment passes
   exactly when the first arrival flight of the sequence lands on the hotel
   check-in day; later arrival flights do not count. *)
C2_ArrivalIffFirst ==
    (Constructed /\ HasType(itinerary.flights, "arrival")) =>
       LET first_on_check_in ==
               \E i \in 1..Len(itinerary.flights) :
                   /\ IsFirstOfType(itinerary.flights, "arrival", i)
                   /\ itinerary.flights[i].arrival_date = itinerary.accommodation.check_in
       IN  /\ Printed(1) => (ResultLines[1].kind = "PASS" <=> first_on_check_in)
           /\ Answered => (response.body.checks[1].passed <=> first_on_check_in)

\* the first arrival misses the check-in day, a later one lands on it, and
\* the command line has printed FAIL for Arrival Alignment
C2_Witness ==
    /\ Printed(1)
    /\ ResultLines[1].kind = "FAIL"
    /\ Len(itinerary.flights) >= 2
    /\ itinerary.flights[1].type = "arrival"
    /\ itinerary.flights[2].type = "arrival"
    /\ itinerary.flights[1].arrival_date # itinerary.accommodation.check_in
    /\ itinerary.flights[2].arrival_date = itinerary.accommodation.check_in

(* C3: Duration Coverage passes exactly when check_out - check_in >=
   total_duration_days; it returns a result for every constructed itinerary,
   and a stay of 0 nights fails whenever total_duration_days > 0. *)
C3_DurationIffCovered ==
    Constructed =>
       LET covered == itinerary.accommodation.check_out - itinerary.accommodation.check_in
                         >= itinerary.trip_details.total_duration_days
           r == DurationCoverageCheck_run(CheckNames[2], itinerary)
       IN  /\ ~r.raised
           /\ r.value.passed <=> covered
           /\ Printed(2) => (ResultLines[2].kind = "PASS" <=> covered)
           /\ Answered => (response.body.checks[2].passed <=> covered)
           /\ (Printed(2) /\ itinerary.accommodation.check_out = itinerary.accommodation.check_in
                          /\ itinerary.trip_details.total_duration_days > 0)
                 => ResultLines[2].kind = "FAIL"

\* a stay of 0 nights against a trip of at least one day: FAIL was printed
C3_Witness ==
    /\ Printed(2)
    /\ itinerary.accommodation.check_out = itinerary.accommodation.check_in
    /\ itinerary.trip_details.total_duration_days > 0
    /\ ResultLines[2].kind = "FAIL"

\* a stay longer than the trip: PASS was printed
C3_WitnessOver ==
    /\ Printed(2)
    /\ stay_duration(itinerary.accommodation) > itinerary.trip_details.total_duration_days
    /\ ResultLines[2].kind = "PASS"

(* C4: when the itinerary has a departure flight, Departure Alignment passes
   exactly when the first departure flight of the sequence leaves on the trip
   end date; one day earlier or later fails, whatever Duration Coverage said. *)
C4_DepartureIffFirst ==
    (Constructed /\ HasType(itinerary.flights, "departure")) =>
       LET first_on_end ==
               \E i \in 1..Len(itinerary.flights) :
                   /\ IsFirstOfType(itinerary.flights, "departure", i)
                   /\ itinerary.flights[i].departure_date = itinerary.trip_details.end_date
           off_by_one ==
               \E i \in 1..Len(itinerary.flights) :
                   /\ IsFirstOfType(itinerary.flights, "departure", i)
                   /\ itinerary.flights[i].departure_date \in
                          {itinerary.trip_details.end_date - 1,
                           itinerary.trip_details.end_date + 1}
       IN  /\ Printed(3) => (ResultLines[3].kind = "PASS" <=> first_on_end)
           /\ Answered => (response.body.checks[3].passed <=> first_on_end)
           /\ (Printed(3) /\ off_by_one) => ResultLines[3].kind = "FAIL"
           /\ (Answered /\ off_by_one) => ~response.body.checks[3].passed

\* the hotel covers the trip, the departure is one day after the trip ends,
\* and the command line has printed PASS for check 2 and FAIL for check 3
C4_Witness ==
    /\ Printed(3)
    /\ ResultLines[2].kind = "PASS"
    /\ ResultLines[3].kind = "FAIL"
    /\ \E i \in 1..Len(itinerary.flights) :
          /\ IsFirstOfType(itinerary.flights, "departure", i)
          /\ itinerary.flights[i].departure_date = itinerary.trip_details.end_date + 1

(* C5: when all three checks have returned a result, main() prints READY and
   returns (exit code 0) if no result has passed = false, and otherwise
   prints GROUNDED with the number of results with passed = false and exits
   with code 1. *)
C5_CliStatus ==
    (front = "cli" /\ Len(ResultLines) = 3 /\ cli_pc # "checks") =>
       LET failed == Cardinality({i \in 1..3 :
                         ~run(get_all_checks[i], itinerary).value.passed})
           last == out[Len(out)]
       IN  /\ failed = Cardinality({i \in 1..3 : ResultLines[i].kind = "FAIL"})
           /\ failed = 0 => /\ last.kind = "READY"
                            /\ cli_pc = "returned"
                            /\ exit_code = 0
           /\ failed > 0 => /\ last.kind = "GROUNDED"
                            /\ last.n = failed
                            /\ cli_pc = "exited"
                            /\ exit_code = 1

\* main() has ended GROUNDED after exactly two of the three checks failed
C5_Witness ==
    /\ front = "cli"
    /\ Len(ResultLines) = 3
    /\ cli_pc = "exited"
    /\ out[Len(out)].kind = "GROUNDED"
    /\ out[Len(out)].n = 2
    /\ ResultLines[2].kind = "PASS"

(* C6: a ValidationResponse of /validate has total_checks = 3 =
   passed_checks + failed_checks, passed_checks is the number of results
   with passed = true, status is "success" exactly when failed_checks = 0
   and "failed" otherwise, and checks holds the name and the message of each
   result of the engine, in the engine's order. *)
C6_ResponseCounts ==
    Answered =>
       LET b == response.body
           engine == [i \in 1..3 |-> run(get_all_checks[i], itinerary).value]
       IN  /\ b.total_checks = 3
           /\ b.passed_checks + b.failed_checks = 3
           /\ b.passed_checks = Cardinality({i \in 1..3 : engine[i].passed})
           /\ b.status = "success" <=> b.failed_checks = 0
           /\ b.status \in {"success", "failed"}
           /\ Len(b.checks) = 3
           /\ \A i \in 1..3 : /\ b.checks[i].check_name = engine[i].check_name
                              /\ b.checks[i].message = engine[i].message
                              /\ b.checks[i].passed = engine[i].passed

\* /validate answered "failed" with all three checks failed
C6_Witness ==
    /\ Answered
    /\ response.body.status = "failed"
    /\ response.body.failed_checks = 3
    /\ response.body.passed_checks = 0

\* the itinerary was constructed and holds both flight kinds
HasBoth ==
    /\ Constructed
    /\ HasType(itinerary.flights, "arrival")
    /\ HasType(itinerary.flights, "departure")

(* C7: on an itinerary with an arrival and a departure flight every check
   runs and yields exactly one result, whatever the checks before it said:
   the command line never stops before the third check, the k-th line it
   prints is that of the k-th check, and /validate answers with three
   results. *)
C7_NoShortCircuit ==
    HasBoth =>
       /\ front = "cli" =>
             /\ cli_pc \in {"checks", "returned", "exited"}
             /\ cli_pc = "checks" => Len(ResultLines) = idx - 1
             /\ (cli_pc = "checks" /\ idx <= 3) => ENABLED main_loop
             /\ cli_pc \in {"returned", "exited"} => Len(ResultLines) = 3
             /\ \A k \in 1..Len(ResultLines) : ResultLines[k].check_name = CheckNames[k]
       /\ front = "api" =>
             /\ response.status_code = 200
             /\ Len(response.body.checks) = 3

\* the first two checks failed and the third was still run, and passed
C7_Witness ==
    /\ HasBoth
    /\ front = "cli"
    /\ Len(ResultLines) = 3
    /\ ResultLines[1].kind = "FAIL"
    /\ ResultLines[2].kind = "FAIL"
    /\ ResultLines[3].kind = "PASS"

(* C8: on a constructed itinerary without an arrival flight Arrival
   Alignment raises and returns no CheckResult, and likewise Departure
   Alignment without a departure flight: the command line prints no PASS or
   FAIL line for that check and ends in a traceback, /validate answers 500. *)
C8_AbsentKindRaises ==
    Constructed =>
       /\ ~HasType(itinerary.flights, "arrival") =>
             /\ run(get_all_checks[1], itinerary) = Raise("StopIteration")
             /\ front = "cli" => /\ ResultLines = <<>>
                                 /\ cli_pc \in {"checks", "crashed"}
             /\ front = "api" => response.status_code = 500
       /\ ~HasType(itinerary.flights, "departure") =>
             /\ run(get_all_checks[3], itinerary) = Raise("StopIteration")
             /\ front = "cli" =>
                   /\ \A k \in 1..Len(ResultLines) :
                         ResultLines[k].check_name # CheckNames[3]
                   /\ cli_pc \in {"checks", "crashed"}
             /\ front = "api" => response.status_code = 500

\* the command line ran into the missing arrival flight and ended in a traceback
C8_Witness ==
    /\ Constructed
    /\ ~HasType(itinerary.flights, "arrival")
    /\ HasType(itinerary.flights, "departure")
    /\ front = "cli"
    /\ cli_pc = "crashed"
    /\ out[Len(out)].kind = "Traceback"

(* C9: when a required flight kind is absent, no result of any check of the
   run is delivered: the command line prints no PASS or FAIL line and
   /validate returns no result list. *)
C9_NoPartialReport ==
    (Constructed /\ ~(HasType(itinerary.flights, "arrival")
                      /\ HasType(itinerary.flights, "departure"))) =>
       /\ ResultLines = <<>>
       /\ response.status_code # 200

\* the raw mapping cannot be validated: construction fails or a kind is absent
CouldNotValidate ==
    \/ Itinerary(raw) = NoItinerary
    \/ ~HasType(raw.flights, "arrival")
    \/ ~HasType(raw.flights, "departure")

CliEnded == front = "cli" /\ cli_pc \in {"returned", "exited", "crashed"}

(* C10: a run that could not validate prints no READY or GROUNDED line and
   gets no ValidationResponse; the command line then ends with "Data
   Integrity Error" or a traceback and /validate answers 422 or 500, while a
   run that validated ends in READY or GROUNDED, or in a 200 response. *)
C10_Distinguishable ==
    /\ CouldNotValidate =>
          /\ \A i \in 1..Len(out) : out[i].kind \notin {"READY", "GROUNDED"}
          /\ cli_pc # "returned"
          /\ CliEnded => out[Len(out)].kind \in {"Data Integrity Error", "Traceback"}
          /\ front = "api" => response.status_code \in {422, 500}
    /\ ~CouldNotValidate =>
          /\ CliEnded => out[Len(out)].kind \in {"READY", "GROUNDED"}
          /\ front = "api" => response.status_code = 200

\* /validate answered 500 for an itinerary without a departure flight
C10_Witness ==
    /\ Constructed
    /\ HasType(itinerary.flights, "arrival")
    /\ ~HasType(itinerary.flights, "departure")
    /\ front = "api"
    /\ response.status_code = 500

\* the command line rejected a mapping whose construction failed
C10_WitnessRejected ==
    /\ Itinerary(raw) = NoItinerary
    /\ CliEnded
    /\ exit_code = 1
    /\ out[Len(out)].kind = "Data Integrity Error"

----------------------------------------------------------------------------
(* Vocabulary of the properties of construction *)

\* the key of a raw flight holds a value
Present(v) == v.form # "none"

\* the raw flight names a kind and gives the date of that kind and no other
DatesMatchKind(m) ==
    /\ "type" \in m.given
    /\ m.type = "arrival" => Present(m.arrival_date) /\ ~Present(m.departure_date)
    /\ m.type = "departure" => Present(m.departure_date) /\ ~Present(m.arrival_date)
    /\ m.type \in FlightTypes

\* the lines of the ValidationError that are about the i-th flight
FlightErrors(i) == {e \in built.errors : e.part = "flights" /\ e.index = i}

(* C11: every constructed Flight has exactly the date of its kind (arrival:
   arrival_date present, departure_date absent; departure: the reverse), so
   flight_date is never absent and is the date that was given; a raw flight
   with any other combination of dates makes construction fail. *)
C11_OneDatePerKind ==
    built.built =>
       /\ built.ok =>
             \A i \in 1..Len(built.value.flights) :
                LET f == built.value.flights[i]
                    m == mapping.flights[i]
                IN  /\ f.type = "arrival" =>
                          /\ f.arrival_date # NoDate
                          /\ f.departure_date = NoDate
                          /\ flight_date(f) = m.arrival_date.day
                    /\ f.type = "departure" =>
                          /\ f.departure_date # NoDate
                          /\ f.arrival_date = NoDate
                          /\ flight_date(f) = m.departure_date.day
                    /\ f.type \in FlightTypes
                    /\ flight_date(f) # NoDate
       /\ (\E i \in 1..Len(mapping.flights) : ~DatesMatchKind(mapping.flights[i]))
             => ~built.ok

\* an itinerary with an arrival and a departure flight was constructed
C11_Witness ==
    /\ built.ok
    /\ Len(built.value.flights) = 2
    /\ built.value.flights[1].type = "arrival"
    /\ built.value.flights[2].type = "departure"
    /\ flight_date(built.value.flights[2]) = MaxDay

\* an arrival flight that carries both dates was rejected
C11_WitnessBothDates ==
    /\ built.built
    /\ ~built.ok
    /\ mapping.flights[1].given = {"type", "flight_number"}
    /\ mapping.flights[1].type = "arrival"
    /\ Len(mapping.flights[1].flight_number) >= MinFlightNumberLen
    /\ mapping.flights[1].arrival_date.form = "text"
    /\ mapping.flights[1].departure_date.form = "text"

(* C12: construction fails with an error on flight_number whenever the
   flight number has fewer than 3 characters, the flight_number rule raises
   no error for a number of 3 or more characters, and construction fails when
   the kind is outside {arrival, departure} or a required key is missing. *)
C12_FlightNumberAndFields ==
    built.built =>
       \A i \in 1..Len(mapping.flights) :
          LET m == mapping.flights[i]
              number_errors == {e \in FlightErrors(i) : e.field = "flight_number"}
          IN  /\ ("flight_number" \in m.given /\ Len(m.flight_number) < MinFlightNumberLen) =>
                    /\ ~built.ok
                    /\ \E e \in number_errors : e.msg = "Invalid Flight Number"
              /\ ("flight_number" \in m.given /\ Len(m.flight_number) >= MinFlightNumberLen) =>
                    number_errors = {}
              /\ ("type" \in m.given /\ m.type \notin FlightTypes) =>
                    /\ ~built.ok
                    /\ \E e \in FlightErrors(i) : e.field = "type"
              /\ \A k \in {"type", "flight_number"} \ m.given :
                    /\ ~built.ok
                    /\ \E e \in FlightErrors(i) : e.field = k /\ e.msg = "Field required"

\* a flight number of two characters on an otherwise well-formed arrival was rejected
C12_Witness ==
    /\ built.built
    /\ ~built.ok
    /\ mapping.flights[1].given = {"type", "flight_number"}
    /\ Len(mapping.flights[1].flight_number) = MinFlightNumberLen - 1
    /\ DatesMatchKind(mapping.flights[1])
    /\ \E e \in FlightErrors(1) : e.msg = "Invalid Flight Number"

\* a flight number of exactly three characters was accepted
C12_WitnessAccepted ==
    /\ built.ok
    /\ Len(built.value.flights[1].flight_number) = MinFlightNumberLen

\* the fields of a raw flight that break a rule of the schema
ViolatedFields(m) ==
    {k \in {"type"} : "type" \notin m.given \/ m.type \notin FlightTypes}
    \cup {k \in {"flight_number"} : \/ "flight_number" \notin m.given
                                    \/ Len(m.flight_number) < MinFlightNumberLen}
    \cup {k \in {"arrival_date"} :
             \/ m.arrival_date.form = "garbled"
             \/ "type" \in m.given /\ m.type = "arrival" /\ ~Present(m.arrival_date)
             \/ "type" \in m.given /\ m.type = "departure" /\ Present(m.arrival_date)}
    \cup {k \in {"departure_date"} :
             \/ m.departure_date.form = "garbled"
             \/ "type" \in m.given /\ m.type = "departure" /\ ~Present(m.departure_date)
             \/ "type" \in m.given /\ m.type = "arrival" /\ Present(m.departure_date)}

(* C13: when a raw mapping violates several rules at once, the validation
   failure of construction has a line about every violated field, and no
   Itinerary is produced. *)
C13_EveryViolatedField ==
    built.built =>
       \A i \in 1..Len(mapping.flights) :
          /\ \A k \in ViolatedFields(mapping.flights[i]) :
                \E e \in FlightErrors(i) : e.about = k
          /\ ViolatedFields(mapping.flights[i]) # {} =>
                /\ ~built.ok
                /\ built.value = NoItinerary

(* C14: when construction of the Itinerary fails, no check runs: /validate
   answers 422 with no result and records no validation, and the command line
   prints "Data Integrity Error" and exits with code 1 with no check
   evaluated and no PASS or FAIL line. *)
C14_NoCheckAfterRejection ==
    (Itinerary(raw) = NoItinerary /\ front \in {"cli", "api"}) =>
       /\ itinerary = NoItinerary
       /\ front = "api" =>
             /\ response = [status_code |-> 422, body |-> [error |-> "ValidationError"]]
             /\ metrics = <<>>
       /\ front = "cli" =>
             /\ cli_pc = "exited"
             /\ exit_code = 1
             /\ out[Len(out)].kind = "Data Integrity Error"
             /\ ResultLines = <<>>
             /\ idx = 0
             /\ ~ENABLED main_loop

\* the command line rejected a mapping whose first flight has a number of two characters
C14_Witness ==
    /\ front = "cli"
    /\ Len(raw.flights) = 2
    /\ raw.flights[1].flight_number = ShortFlightNumber
    /\ FlightOk(raw.flights[2])
    /\ cli_pc = "exited"
    /\ exit_code = 1

\* /validate answered 422 to a mapping with a flight number of two characters
C14_WitnessApi ==
    /\ front = "api"
    /\ \E i \in 1..Len(raw.flights) : raw.flights[i].flight_number = ShortFlightNumber
    /\ response.status_code = 422

\* every check has been run at least once
AllRun == \A i \in 1..Len(get_all_checks) : results[i] # NotRun

(* C15: a check run again on the same Itinerary returns the CheckResult it
   returned before (name, passed flag and message), and a run leaves the
   Itinerary as it was. *)
C15_SameResultEachRun ==
    [][/\ itinerary' = itinerary
       /\ \A i \in 1..Len(get_all_checks) :
             results[i] # NotRun => results'[i] = results[i]]_vars

\* every check has run, one of them more than once, with a failed result among them
C15_Witness ==
    /\ AllRun
    /\ rerun
    /\ HasBoth
    /\ ~results[1].value.passed
    /\ results[3].value.passed

(* C16: in whatever order and however interleaved the three checks are run
   on an Itinerary, each returns what it returns when run alone on it, and
   once all have run the results are the list run_all_checks returns. *)
C16_OrderIndependent ==
    /\ \A i \in 1..Len(get_all_checks) :
          results[i] # NotRun => results[i] = run(get_all_checks[i], Itinerary(raw))
    /\ (AllRun /\ HasBoth) =>
          /\ ~run_all_checks(Itinerary(raw)).raised
          /\ \A i \in 1..Len(get_all_checks) :
                results[i].value = run_all_checks(Itinerary(raw)).value[i]

\* Departure Alignment was run first, before the two checks that precede it
C16_Witness ==
    /\ HasBoth
    /\ results[1] = NotRun
    /\ results[2] = NotRun
    /\ results[3] # NotRun
    /\ ~results[3].value.passed

\* the first arrival flight lands on the day of the hotel check-in
ArrivesAtCheckIn ==
    \E i \in 1..Len(itinerary.flights) :
       /\ IsFirstOfType(itinerary.flights, "arrival", i)
       /\ flight_date(itinerary.flights[i]) = itinerary.accommodation.check_in

(* C17 as stated: on every valid Itinerary whose arrival flight lands on the
   day of the hotel check-in, Duration Coverage (check 2) passes. *)
C17_AlignedArrivalCovers ==
    (HasBoth /\ ArrivesAtCheckIn /\ results[2] # NotRun) => results[2].value.passed

(* C17 amended: on every valid Itinerary whose arrival flight lands on the
   day of the hotel check-in, Arrival Alignment (check 1) passes, and the
   result of Departure Alignment (check 3) is the same for every
   accommodation and trip duration, so whatever checks 1 and 2 say. *)
C17_AlignedArrivalPasses ==
    HasBoth =>
       /\ (ArrivesAtCheckIn /\ results[1] # NotRun) => results[1].value.passed
       /\ results[3] # NotRun =>
             \A a \in Days, b \in Days, n \in Durations :
                results[3] = run(get_all_checks[3],
                                 [itinerary EXCEPT !.accommodation.check_in = a,
                                                   !.accommodation.check_out = b,
                                                   !.trip_details.total_duration_days = n])

\* the arrival is aligned, Duration Coverage failed and Departure Alignment passed
C17_Witness ==
    /\ HasBoth
    /\ ArrivesAtCheckIn
    /\ AllRun
    /\ results[1].value.passed
    /\ ~results[2].value.passed
    /\ results[3].value.passed

\* every date of the raw mapping is given as 'YYYY-MM-DD' text (or not given)
\* and the duration as an int
GivenAsText(m) ==
    /\ \A i \in 1..Len(m.flights) :
          /\ m.flights[i].arrival_date.form \in {"none", "text"}
          /\ m.flights[i].departure_date.form \in {"none", "text"}
    /\ m.trip_details.start_date.form = "text"
    /\ m.trip_details.end_date.form = "text"
    /\ m.accommodation.check_in.form = "text"
    /\ m.accommodation.check_out.form = "text"
    /\ m.trip_details.total_duration_days.form = "int"

(* C18 as stated: a constructed Itinerary serialized back gives, for every
   field of the raw mapping, exactly the value that was given. *)
C18_RoundTrip ==
    dumped # NotDumped => dumped = mapping

(* C18 amended: for a raw mapping whose dates are given as YYYY-MM-DD text
   and whose duration is given as an int, the constructed Itinerary
   serialized back gives every field exactly as it was given; for every
   constructed Itinerary the strings are unchanged, the flights keep their
   order and every date and number comes back with the value given, a date
   as YYYY-MM-DD text and a number as an int. *)
C18_RoundTripOfText ==
    dumped # NotDumped =>
       /\ GivenAsText(mapping) => dumped = mapping
       /\ Len(dumped.flights) = Len(mapping.flights)
       /\ \A i \in 1..Len(mapping.flights) :
             /\ dumped.flights[i].type = mapping.flights[i].type
             /\ dumped.flights[i].flight_number = mapping.flights[i].flight_number
             /\ dumped.flights[i].arrival_date.day = mapping.flights[i].arrival_date.day
             /\ dumped.flights[i].departure_date.day = mapping.flights[i].departure_date.day
             /\ dumped.flights[i].arrival_date.form \in {"none", "text"}
             /\ dumped.flights[i].departure_date.form \in {"none", "text"}
       /\ dumped.trip_details.destination = mapping.trip_details.destination
       /\ dumped.trip_details.start_date = DateText(mapping.trip_details.start_date.day)
       /\ dumped.trip_details.total_duration_days =
             IntValue(mapping.trip_details.total_duration_days.n)
       /\ dumped.accommodation = mapping.accommodation

\* a mapping of text dates with an arrival and a departure flight came back as given
C18_Witness ==
    /\ dumped # NotDumped
    /\ GivenAsText(mapping)
    /\ Len(mapping.flights) = 2
    /\ mapping.flights[1].type = "arrival"
    /\ mapping.flights[2].type = "departure"
    /\ dumped = mapping

(* C19: every result with passed = false carries a message with both
   compared values (arrival: the flight's date and the hotel check-in;
   duration: the trip days and the hotel nights; departure: the trip end date
   and the flight's date), in /validate's response and in the FAIL lines of
   the command line; a check that compares and finds a mismatch returns such
   a result and does not raise. *)
C19_FailMessageHasBothValues ==
    LET compared(i, data) ==
           CASE i = 1 -> <<flight_date(data.flights[next_of_type(data.flights, "arrival", 1)]),
                           data.accommodation.check_in>>
             [] i = 2 -> <<data.trip_details.total_duration_days,
                           stay_duration(data.accommodation)>>
             [] i = 3 -> <<data.trip_details.end_date,
                           flight_date(data.flights[next_of_type(data.flights, "departure", 1)])>>
    IN
    /\ Answered =>
          \A i \in 1..3 :
             ~response.body.checks[i].passed =>
                response.body.checks[i].message.args = compared(i, itinerary)
    /\ \A k \in 1..Len(ResultLines) :
          ResultLines[k].kind = "FAIL" =>
             ResultLines[k].message.args = compared(k, itinerary)
    /\ HasBoth =>
          \A i \in 1..3 :
             LET r == run(get_all_checks[i], itinerary) IN
             (compared(i, itinerary)[1] # compared(i, itinerary)[2]) =>
                ~r.raised /\ (r.value.passed \/ r.value.message.args = compared(i, itinerary))

\* /validate answered with three failed results
C19_Witness ==
    /\ Answered
    /\ \A i \in 1..3 : ~response.body.checks[i].passed
    /\ response.body.checks[1].message.args =
          <<itinerary.accommodation.check_in + 1, itinerary.accommodation.check_in>>

\* the command line printed a FAIL line for Arrival Alignment
C19_WitnessCli ==
    /\ Printed(1)
    /\ ResultLines[1].kind = "FAIL"

(* C20: in the top-level script main() counts one failure for every check
   whose result is not passed: it ends READY (exit code 0) only when no check
   failed, and GROUNDED with the number of failed checks and exit code 1
   otherwise. *)
C20_ScriptCountsFailures ==
    (front = "script" /\ Constructed /\ cli_pc \in {"returned", "exited"}) =>
       LET failed == Cardinality({i \in 1..3 :
                         ~run(get_all_checks[i], itinerary).value.passed})
           last == out[Len(out)]
       IN  /\ failed = 0 => /\ last.kind = "READY"
                            /\ exit_code = 0
           /\ failed > 0 => /\ last.kind = "GROUNDED"
                            /\ last.n = failed
                            /\ exit_code = 1

----------------------------------------------------------------------------
(* Properties of the Excel ingestion *)

\* the rows parse cannot do without
RequiredRows ==
    {"Trip Destination", "Trip Start Date", "Trip End Date", "Total Duration (Days)",
     "Hotel Name", "Hotel Check-in Date", "Hotel Check-out Date",
     "Arrival Flight Number", "Departure Flight Number"}

\* parse has returned a mapping
Parsed == parsed # NotParsed /\ ~parsed.raised

(* C23: a mapping returned by ExcelIngestion.parse has the top-level keys
   trip_details, flights and accommodation and no other (the temporary
   arrival and departure keys are gone), and every entry of flights carries
   its type; when a required trip field, accommodation field or flight number
   has no value in the sheet, parse raises ValueError and returns nothing. *)
C23_ParsedShape ==
    parsed # NotParsed =>
       /\ ~parsed.raised =>
             /\ DOMAIN parsed.value = {"trip_details", "flights", "accommodation"}
             /\ \A i \in 1..Len(parsed.value.flights) :
                   /\ "type" \in DOMAIN parsed.value.flights[i]
                   /\ parsed.value.flights[i].type \in FlightTypes
       /\ RequiredRows \ sheet.rows # {} =>
             /\ parsed.raised
             /\ parsed.value = "ValueError"

\* a sheet with every required row, no dates of the flights and a row that
\* is not in the template was parsed
C23_Witness ==
    /\ Parsed
    /\ sheet.rows = RequiredRows \cup {"Notes"}
    /\ Len(parsed.value.flights) = 2

\* a sheet that lacks only the hotel name made parse raise
C23_WitnessMissing ==
    /\ parsed # NotParsed
    /\ parsed.raised
    /\ sheet.readable
    /\ RequiredRows \ sheet.rows = {"Hotel Name"}

(* C29: a mapping returned by ExcelIngestion.parse has exactly two flights,
   the arrival flight first and the departure flight second, so an Itinerary
   constructed from it holds both kinds and neither Arrival Alignment nor
   Departure Alignment raises on it. *)
C29_TwoFlights ==
    Parsed =>
       /\ Len(parsed.value.flights) = 2
       /\ parsed.value.flights[1].type = "arrival"
       /\ parsed.value.flights[2].type = "departure"
       /\ LET it == Itinerary(keyword_arguments(parsed.value)) IN
          it # NoItinerary =>
             /\ HasType(it.flights, "arrival")
             /\ HasType(it.flights, "departure")
             /\ ~run(get_all_checks[1], it).raised
             /\ ~run(get_all_checks[3], it).raised
             /\ ~run_all_checks(it).raised

\* a complete sheet was parsed, and its Itinerary was constructed
C29_Witness ==
    /\ Parsed
    /\ Itinerary(keyword_arguments(parsed.value)) # NoItinerary
    /\ Len(run_all_checks(Itinerary(keyword_arguments(parsed.value))).value) = 3

(* C26: while the request is processed the context holds the request ID that
   dispatch set and stored in request.state; when dispatch ends, with a
   response or with an exception, the context holds no request ID; a
   response carries that ID in X-Request-ID, and an exception of the handler
   is logged as "Request failed" and raised again. *)
C26_RequestIdLifecycle ==
    /\ dispatch_pc = "called" =>
          /\ request_id_var \in RequestIds
          /\ request_id_var = request.request_id
          /\ sent = NothingSent
          /\ log[Len(log)].request_id = request.request_id
    /\ dispatch_pc \in {"returned", "raised"} =>
          /\ request_id_var = NoRequestId
          /\ request.request_id \in RequestIds
          /\ \A i \in 1..Len(log) : log[i].request_id = request.request_id
    /\ dispatch_pc = "returned" =>
          /\ ~request.outcome.raised
          /\ sent.kind = "response"
          /\ sent.status_code = request.outcome.value
          /\ sent.headers.X_Request_ID = request.request_id
    /\ dispatch_pc = "raised" =>
          /\ request.outcome.raised
          /\ sent.kind = "raised"
          /\ sent.error = request.outcome.value
          /\ log[Len(log)].message = "Request failed"

\* the handler raised: dispatch logged it, raised it again and cleared the ID
C26_Witness ==
    /\ dispatch_pc = "raised"
    /\ sent = [kind |-> "raised", error |-> "RuntimeError"]
    /\ request_id_var = NoRequestId
    /\ request.request_id = MaxRequestId

\* a 422 response went out with the ID of the request in its header
C26_WitnessResponse ==
    /\ dispatch_pc = "returned"
    /\ sent.status_code = 422
    /\ sent.headers.X_Request_ID = request.request_id
    /\ request_id_var = NoRequestId

\* what load_itinerary gets from the reader of the file
Read == reader_parse(file, raw, sheet)

\* the line load_itinerary prints before sys.exit(1), or NoLine when it
\* returns an Itinerary
NoLine == Banner("")

LoadError ==
    IF ~file.exists THEN Banner("File not found")
    ELSE IF lower(file.suffix) \notin {".xlsx", ".yaml", ".yml"}
    THEN Banner("Unsupported file type")
    ELSE IF Read.raised THEN Banner("Error processing file")
    ELSE IF Itinerary(Read.value) = NoItinerary THEN Banner("Data Integrity Error")
    ELSE NoLine

(* C22: load_itinerary either returns the constructed Itinerary or prints an
   error and exits with code 1: "File not found" for a path that does not
   exist, "Unsupported file type" for a suffix other than .xlsx, .yaml, .yml,
   "Data Integrity Error" for a schema error, "Error processing file" for any
   other ingestion error; after an exit no check was run. *)
C22_ReturnsOrExits ==
    front = "cli" =>
        IF LoadError # NoLine
        THEN /\ cli_pc = "exited"
             /\ exit_code = 1
             /\ out[Len(out)] = LoadError
             /\ itinerary = NoItinerary
             /\ idx = 0
             /\ ResultLines = <<>>
        ELSE /\ itinerary = Itinerary(Read.value)
             /\ Constructed
             /\ cli_pc # "idle"
             /\ idx >= 1
             /\ \A i \in 1..Len(out) :
                   out[i].kind \notin {"File not found", "Unsupported file type",
                                       "Error processing file", "Data Integrity Error"}

\* the command line has exited on a file of an unsupported suffix
C22_Witness ==
    /\ front = "cli"
    /\ file.exists
    /\ file.suffix = ".txt"
    /\ file.content = "mapping"
    /\ Itinerary(raw) # NoItinerary
    /\ cli_pc = "exited"
    /\ exit_code = 1

\* it has exited on a missing file, on a schema error and on a workbook that
\* cannot be read, and it has returned the Itinerary of a workbook
C22_WitnessMissing == front = "cli" /\ ~file.exists /\ cli_pc = "exited"

C22_WitnessSchema ==
    front = "cli" /\ LoadError = Banner("Data Integrity Error") /\ cli_pc = "exited"

C22_WitnessIngestion ==
    /\ front = "cli"
    /\ lower(file.suffix) = ".xlsx"
    /\ LoadError = Banner("Error processing file")
    /\ cli_pc = "exited"

C22_WitnessReturned ==
    /\ front = "cli"
    /\ file.suffix = ".XLSX"
    /\ LoadError = NoLine
    /\ cli_pc = "checks"
    /\ idx = 1

\* /upload was given a file whose extension is not allowed
UnsupportedUpload ==
    front = "upload" /\ lower(file.suffix) \notin allowed_file_extensions

(* C24: an upload whose extension is not .xlsx, .yaml or .yml is answered 400
   "Unsupported file type", and nothing else has happened: no temporary file
   was created, nothing was parsed or constructed, no check was run and no
   metric recorded, and the rest of the handler cannot run. An upload with an
   allowed extension never gets that answer. *)
C24_UnsupportedRejectedFirst ==
    /\ UnsupportedUpload =>
          /\ response = [status_code |-> 400,
                         body |-> [error |-> "Unsupported file type"]]
          /\ temp_file = "none"
          /\ itinerary = NoItinerary
          /\ parsed = NotParsed
          /\ metrics = <<>>
          /\ ~ENABLED upload_and_validate_try
    /\ (front = "upload" /\ ~UnsupportedUpload) =>
          response.body # [error |-> "Unsupported file type"]

\* a YAML mapping of a valid trip was uploaded as .txt and rejected
C24_Witness ==
    /\ UnsupportedUpload
    /\ file.suffix = ".txt"
    /\ file.content = "mapping"
    /\ Itinerary(raw) # NoItinerary
    /\ response.status_code = 400

\* an upload named .XLSX was taken
C24_WitnessUpperCase ==
    front = "upload" /\ file.suffix = ".XLSX" /\ response.status_code = 200

\* the request to /upload has ended
UploadEnded == front = "upload" /\ response # NoResponse

(* C30: once /upload has created its temporary file, the file is removed by
   the time the request ends, on every path. *)
C30_TempFileRemoved ==
    (UploadEnded /\ temp_file # "none") => temp_file = "removed"

\* the four paths through the try statement do remove the file: a response
\* 200, a parsing error, a schema error, an absent flight
RemovedAfterTry ==
    (/\ UploadEnded
     /\ \/ response.status_code \in {200, 422}
        \/ response.body = [error |-> "ValueError"]
        \/ response.status_code = 500 /\ Constructed)
    => temp_file = "removed"

\* the results of the checks on the body of the request
BodyChecks == run_all_checks(Itinerary(raw))

\* the validation results a response body carries beside its notion_export
ValidationPart(body) == [k \in DOMAIN body \ {"notion_export"} |-> body[k]]

(* C25: for a body that is an Itinerary, /export/notion answers 503 without
   running a check (none is recorded, and an absent flight goes unnoticed)
   when the Notion token or the page id is empty; when both are set the
   checks run first, and a failed export does not discard them: the answer
   is 207 with the complete validation results and a notion_export entry
   that holds the error, where a successful export is answered 200 with the
   same results and the exported page. *)
C25_ExportKeepsResults ==
    (front = "notion" /\ Itinerary(raw) # NoItinerary) =>
        IF ~notion_enabled(settings)
        THEN /\ response.status_code = 503
             /\ metrics = <<>>
             /\ notion.pages = <<>>
        ELSE IF BodyChecks.raised
        THEN response.status_code = 500 /\ notion.pages = <<>>
        ELSE /\ response.status_code = IF notion.up THEN 200 ELSE 207
             /\ "notion_export" \in DOMAIN response.body
             /\ ValidationPart(response.body)
                   = ValidationResponse(Itinerary(raw), BodyChecks.value)
             /\ notion.up <=> "error" \notin DOMAIN response.body.notion_export
             /\ notion.pages = IF notion.up
                               THEN <<ValidationResponse(Itinerary(raw), BodyChecks.value)>>
                               ELSE <<>>

\* the export of a trip with failed checks failed and was answered 207
C25_Witness ==
    /\ front = "notion"
    /\ notion_enabled(settings)
    /\ ~notion.up
    /\ response.status_code = 207
    /\ response.body.failed_checks > 0

\* a trip without a departure flight was answered 503
C25_WitnessNotConfigured ==
    /\ front = "notion"
    /\ settings.notion_api_token # ""
    /\ settings.notion_page_id = ""
    /\ Itinerary(raw) # NoItinerary
    /\ BodyChecks.raised
    /\ response.status_code = 503

C25_WitnessExported ==
    front = "notion" /\ response.status_code = 200 /\ Len(notion.pages) = 1

\* the keyword arguments the front end constructed its Itinerary from
Given == IF front \in {"cli", "upload"} THEN Read.value ELSE raw

(* C21: no operation changes the Itinerary it is given: once constructed,
   the Itinerary is the one its front end built from the input, and every
   step (a run of a check, a turn of the loop of main(), the status line,
   the handlers of /validate, /upload and /export/notion) leaves it as it
   was. *)
C21_ItineraryUnchanged ==
    /\ [](Constructed => itinerary = Itinerary(Given))
    /\ [][Constructed => itinerary' = itinerary]_vars

\* the loop of main() has run all checks on a trip with two flights, and
\* the checks were run again beside it
C21_Witness ==
    /\ CliEnded
    /\ Constructed
    /\ Len(itinerary.flights) = 2
    /\ Len(ResultLines) = Len(get_all_checks)
    /\ \A i \in 1..Len(get_all_checks) : results[i] # NotRun

\* /upload and /export/notion have answered on a constructed Itinerary
C21_WitnessUpload == front = "upload" /\ Constructed /\ response.status_code = 200

C21_WitnessNotion == front = "notion" /\ Constructed /\ response.status_code = 207

\* the Itinerary of the same input with the trip starting on day s
StartingOn(s) == Itinerary([raw EXCEPT !.trip_details.start_date = s])

\* the line main() prints for a result
ResultLine(r) ==
    IF r.passed THEN Line("PASS", r.check_name, NoMessage, 0)
    ELSE Line("FAIL", r.check_name, r.message, 0)

(* C27: itineraries that differ only in trip_details.start_date get the same
   result from each of the three checks and the same aggregate status: what
   the command line printed and what /validate answered for this input is
   what they give for the same input with any other start date. *)
C27_StartDateIrrelevant ==
    \A s \in Days \ {raw.trip_details.start_date} :
        LET here == Itinerary(raw)
            other == StartingOn(s)
        IN  IF here = NoItinerary THEN other = NoItinerary
            ELSE /\ other # NoItinerary
                 /\ \A i \in 1..Len(get_all_checks) :
                       LET r == run(get_all_checks[i], other) IN
                       /\ r = run(get_all_checks[i], here)
                       /\ Printed(i) => ResultLines[i] = ResultLine(r.value)
                       /\ (front = "cli" /\ cli_pc = "returned") => r.value.passed
                 /\ Answered =>
                       response.body = ValidationResponse(other, run_all_checks(other).value)

\* READY was printed for a trip whose arrival flight is not on start_date and
\* whose total_duration_days is not end_date - start_date
C27_Witness ==
    /\ front = "cli"
    /\ cli_pc = "returned"
    /\ out[Len(out)] = Banner("READY")
    /\ flight_date(itinerary.flights[next_of_type(itinerary.flights, "arrival", 1)])
          # itinerary.trip_details.start_date
    /\ itinerary.trip_details.total_duration_days
          # itinerary.trip_details.end_date - itinerary.trip_details.start_date

\* what /validate answers to the input of this run
ValidateAnswer ==
    ValidationResponse(Itinerary(raw), run_all_checks(Itinerary(raw)).value)

\* the last line the command line printed
StatusLine == out[Len(out)]

(* C28: on a constructed itinerary with both flight kinds the command line
   and /validate agree: the command line ends with READY exactly when
   /validate answers status "success", it ends with GROUNDED exactly when
   /validate answers "failed", and the count printed with GROUNDED is
   failed_checks of that response. *)
C28_CliAgreesWithValidate ==
    /\ (CliEnded /\ HasBoth) =>
          /\ StatusLine.kind \in {"READY", "GROUNDED"}
          /\ StatusLine.kind = "READY" <=> ValidateAnswer.status = "success"
          /\ StatusLine.kind = "GROUNDED" <=> ValidateAnswer.status = "failed"
          /\ StatusLine.kind = "GROUNDED" => StatusLine.n = ValidateAnswer.failed_checks
          /\ exit_code = 0 <=> ValidateAnswer.status = "success"
    /\ (front = "api" /\ HasBoth) =>
          /\ response.status_code = 200
          /\ response.body = ValidateAnswer

\* the command line ended GROUNDED with one failure of three checks
C28_Witness ==
    /\ CliEnded
    /\ HasBoth
    /\ StatusLine = Line("GROUNDED", "", NoMessage, 1)
    /\ ValidateAnswer.failed_checks = 1

C28_WitnessReady ==
    CliEnded /\ HasBoth /\ StatusLine = Banner("READY") /\ ValidateAnswer.status = "success"

C28_WitnessApi ==
    front = "api" /\ HasBoth /\ response.body.status = "failed" /\ response.body.failed_checks = 2

====
